---- MODULE Spec2Model ----
(***************************************************************************)
(* Self-update engine of nvm for Windows (package upgrade).                *)
(*                                                                         *)
(* Three parties are modelled:                                             *)
(*   - the orchestrator: run followed by autoupdate, one action per step;  *)
(*   - the status consumer of Run (console printer or progress-UI task),   *)
(*     connected to the orchestrator by the unbuffered channel `status`;   *)
(*   - the Watcher: the updater.bat script, a separate OS process.         *)
(* A send on the unbuffered channel is an offer (out / cout) that the      *)
(* sender holds until the consumer takes it (Receive).                     *)
(***************************************************************************)
EXTENDS Integers, Sequences, FiniteSets, TLC

\* ------------------------------------------------------------------ bounds
MaxWarnings == 1   \* advisory messages per warning list
MaxIdents == 2     \* prerelease identifiers of a generated version string

\* ------------------------------------------------------------- vocabulary
NoEvent == [Text |-> "", Err |-> "", Done |-> FALSE, Cancel |-> FALSE, Warn |-> ""]

TextEvent(t) == [NoEvent EXCEPT !.Text = t]
ErrEvent(e) == [NoEvent EXCEPT !.Err = e]
WarnEvent(w) == [NoEvent EXCEPT !.Warn = w]
DoneEvent(t) == [NoEvent EXCEPT !.Text = t, !.Done = TRUE]
CancelEvent == [NoEvent EXCEPT !.Cancel = TRUE]

Terminal(e) == e.Err # "" \/ e.Done \/ e.Cancel

\* Versions the run is given, by number: 0 is a string semver.New rejects,
\* 1 is a prerelease of 2.
Versions == 0..2

\* ------------------------------------------------------------------ semver
\* A string is a sequence of one-character strings.
numbers == {"0", "1", "2", "3", "4", "5", "6", "7", "8", "9"}
LowerCase == <<"a", "b", "c", "d", "e", "f", "g", "h", "i", "j", "k", "l", "m",
               "n", "o", "p", "q", "r", "s", "t", "u", "v", "w", "x", "y", "z">>
UpperCase == <<"A", "B", "C", "D", "E", "F", "G", "H", "I", "J", "K", "L", "M",
               "N", "O", "P", "Q", "R", "S", "T", "U", "V", "W", "X", "Y", "Z">>
DigitChars == <<"0", "1", "2", "3", "4", "5", "6", "7", "8", "9">>
Range(f) == {f[i] : i \in DOMAIN f}
alphas == Range(LowerCase) \cup Range(UpperCase) \cup {"-"}
alphanum == alphas \cup numbers

IndexIn(seq, c) == CHOOSE i \in DOMAIN seq : seq[i] = c

\* The byte value of a character, which Go's string comparison goes by.
Byte(c) ==
    IF c = "+" THEN 43
    ELSE IF c = "-" THEN 45
    ELSE IF c = "." THEN 46
    ELSE IF c \in numbers THEN 47 + IndexIn(DigitChars, c)
    ELSE IF c \in Range(UpperCase) THEN 64 + IndexIn(UpperCase, c)
    ELSE 96 + IndexIn(LowerCase, c)

\* a < b for Go strings: bytewise, a proper prefix is smaller.
RECURSIVE StringLess(_, _)
StringLess(a, b) ==
    IF b = <<>> THEN FALSE
    ELSE IF a = <<>> THEN TRUE
    ELSE IF Head(a) # Head(b) THEN Byte(Head(a)) < Byte(Head(b))
    ELSE StringLess(Tail(a), Tail(b))

\* strings.Index(str, c): the first position of c, counted from 1; 0 when absent.
Index(str, c) ==
    IF \E i \in DOMAIN str : str[i] = c
    THEN CHOOSE i \in DOMAIN str : str[i] = c /\ \A j \in 1..(i - 1) : str[j] # c
    ELSE 0

\* strings.Replace(str, old, "", 1) for a one-character old.
RemoveFirst(str, old) ==
    LET i == Index(str, old) IN
      IF i = 0 THEN str
      ELSE SubSeq(str, 1, i - 1) \o SubSeq(str, i + 1, Len(str))

\* strings.SplitN(str, sep, n) for a one-character sep and n >= 1.
RECURSIVE SplitN(_, _, _)
SplitN(str, sep, n) ==
    LET i == Index(str, sep) IN
      IF n = 1 \/ i = 0 THEN <<str>>
      ELSE <<SubSeq(str, 1, i - 1)>> \o SplitN(SubSeq(str, i + 1, Len(str)), sep, n - 1)

\* strings.Split(str, sep) for a one-character sep.
Split(str, sep) == SplitN(str, sep, Len(str) + 1)

\* strings.Join(parts, sep).
RECURSIVE JoinStrings(_, _)
JoinStrings(parts, sep) ==
    IF parts = <<>> THEN <<>>
    ELSE IF Len(parts) = 1 THEN parts[1]
    ELSE parts[1] \o sep \o JoinStrings(Tail(parts), sep)

containsOnly(str, set) == \A i \in DOMAIN str : str[i] \in set

hasLeadingZeroes(str) == Len(str) > 1 /\ str[1] = "0"

\* strconv.ParseUint(str, 10, 64): an error for the empty string or a
\* character that is no digit.
RECURSIVE DecimalValue(_)
DecimalValue(str) ==
    IF str = <<>> THEN 0
    ELSE 10 * DecimalValue(SubSeq(str, 1, Len(str) - 1))
         + IndexIn(DigitChars, str[Len(str)]) - 1

ParseUint(str) ==
    IF str = <<>> \/ ~containsOnly(str, numbers) THEN [err |-> TRUE, num |-> 0]
    ELSE [err |-> FALSE, num |-> DecimalValue(str)]

\* strconv.FormatUint(n, 10).
RECURSIVE FormatUint(_)
FormatUint(n) ==
    IF n < 10 THEN <<DigitChars[n + 1]>>
    ELSE FormatUint(n \div 10) \o <<DigitChars[(n % 10) + 1]>>

NoPRVersion == [VersionStr |-> <<>>, VersionNum |-> 0, IsNum |-> FALSE]

\* NewPRVersion with a fault: a non-numeric identifier is taken as it is.
NewPRVersion_NoCharTest(str) ==
    IF str = <<>> THEN [err |-> TRUE, pr |-> NoPRVersion]
    ELSE IF containsOnly(str, numbers)
    THEN IF hasLeadingZeroes(str) THEN [err |-> TRUE, pr |-> NoPRVersion]
         ELSE [err |-> FALSE,
               pr |-> [VersionStr |-> <<>>, VersionNum |-> ParseUint(str).num,
                       IsNum |-> TRUE]]
    ELSE [err |-> FALSE,
          pr |-> [VersionStr |-> str, VersionNum |-> 0, IsNum |-> FALSE]]

\* NewPRVersion.
NewPRVersion(str) ==
    IF str = <<>> THEN [err |-> TRUE, pr |-> NoPRVersion]
    ELSE IF containsOnly(str, numbers)
    THEN IF hasLeadingZeroes(str) THEN [err |-> TRUE, pr |-> NoPRVersion]
         ELSE [err |-> FALSE,
               pr |-> [VersionStr |-> <<>>, VersionNum |-> ParseUint(str).num,
                       IsNum |-> TRUE]]
    ELSE IF containsOnly(str, alphanum)
    THEN [err |-> FALSE,
          pr |-> [VersionStr |-> str, VersionNum |-> 0, IsNum |-> FALSE]]
    ELSE [err |-> TRUE, pr |-> NoPRVersion]

PRVersionString(pr) ==
    IF pr.IsNum THEN FormatUint(pr.VersionNum) ELSE pr.VersionStr

\* PRVersionCompare with a fault: two numeric identifiers are compared as text.
PRVersionCompare_NumericAsText(v, o) ==
    IF v.IsNum /\ ~o.IsNum THEN -1
    ELSE IF ~v.IsNum /\ o.IsNum THEN 1
    ELSE IF v.IsNum /\ o.IsNum
    THEN IF v.VersionNum = o.VersionNum THEN 0
         ELSE IF StringLess(FormatUint(o.VersionNum), FormatUint(v.VersionNum))
              THEN 1 ELSE -1
    ELSE IF v.VersionStr = o.VersionStr THEN 0
         ELSE IF StringLess(o.VersionStr, v.VersionStr) THEN 1 ELSE -1

\* PRVersion.Compare.
PRVersionCompare(v, o) ==
    IF v.IsNum /\ ~o.IsNum THEN -1
    ELSE IF ~v.IsNum /\ o.IsNum THEN 1
    ELSE IF v.IsNum /\ o.IsNum
    THEN IF v.VersionNum = o.VersionNum THEN 0
         ELSE IF v.VersionNum > o.VersionNum THEN 1 ELSE -1
    ELSE IF v.VersionStr = o.VersionStr THEN 0
         ELSE IF StringLess(o.VersionStr, v.VersionStr) THEN 1 ELSE -1

NoVersion == [Major |-> 0, Minor |-> 0, Patch |-> 0, Pre |-> <<>>, Build |-> <<>>]

\* Version.String.
String(v) ==
    FormatUint(v.Major) \o <<".">> \o FormatUint(v.Minor) \o <<".">>
    \o FormatUint(v.Patch)
    \o (IF Len(v.Pre) > 0
        THEN <<"-">> \o JoinStrings([i \in DOMAIN v.Pre |-> PRVersionString(v.Pre[i])],
                                   <<".">>)
        ELSE <<>>)
    \o (IF Len(v.Build) > 0 THEN <<"+">> \o JoinStrings(v.Build, <<".">>) ELSE <<>>)

\* The loop of Version.Compare over the prerelease identifiers, from index i.
RECURSIVE ComparePre(_, _, _)
ComparePre(vp, op, i) ==
    IF i <= Len(vp) /\ i <= Len(op)
    THEN LET comp == PRVersionCompare(vp[i], op[i]) IN
           IF comp = 0 THEN ComparePre(vp, op, i + 1)
           ELSE IF comp = 1 THEN 1 ELSE -1
    ELSE IF i = Len(vp) + 1 /\ i = Len(op) + 1 THEN 0
    ELSE IF i = Len(vp) + 1 /\ i < Len(op) + 1 THEN -1
    ELSE 1

\* Compare with a fault: a version without prerelease is put below one with a
\* prerelease, as in the branch that follows.
Compare_ReleaseBelowPrerelease(v, o) ==
    IF v.Major # o.Major THEN (IF v.Major > o.Major THEN 1 ELSE -1)
    ELSE IF v.Minor # o.Minor THEN (IF v.Minor > o.Minor THEN 1 ELSE -1)
    ELSE IF v.Patch # o.Patch THEN (IF v.Patch > o.Patch THEN 1 ELSE -1)
    ELSE IF Len(v.Pre) = 0 /\ Len(o.Pre) = 0 THEN 0
    ELSE IF Len(v.Pre) = 0 /\ Len(o.Pre) > 0 THEN -1
    ELSE IF Len(v.Pre) > 0 /\ Len(o.Pre) = 0 THEN -1
    ELSE ComparePre(v.Pre, o.Pre, 1)

\* Version.Compare.
Compare(v, o) ==
    IF v.Major # o.Major THEN (IF v.Major > o.Major THEN 1 ELSE -1)
    ELSE IF v.Minor # o.Minor THEN (IF v.Minor > o.Minor THEN 1 ELSE -1)
    ELSE IF v.Patch # o.Patch THEN (IF v.Patch > o.Patch THEN 1 ELSE -1)
    ELSE IF Len(v.Pre) = 0 /\ Len(o.Pre) = 0 THEN 0
    ELSE IF Len(v.Pre) = 0 /\ Len(o.Pre) > 0 THEN 1
    ELSE IF Len(v.Pre) > 0 /\ Len(o.Pre) = 0 THEN -1
    ELSE ComparePre(v.Pre, o.Pre, 1)

GT(v, o) == Compare(v, o) = 1
GTE(v, o) == Compare(v, o) >= 0
LT(v, o) == Compare(v, o) = -1
LTE(v, o) == Compare(v, o) <= 0

\* Version.Validate: TRUE when it returns an error.
Validate(v) ==
    \/ \E i \in DOMAIN v.Pre :
          /\ ~v.Pre[i].IsNum
          /\ \/ Len(v.Pre[i].VersionStr) = 0
             \/ ~containsOnly(v.Pre[i].VersionStr, alphanum)
    \/ \E i \in DOMAIN v.Build :
          \/ Len(v.Build[i]) = 0
          \/ ~containsOnly(v.Build[i], alphanum)

ParseFailed == [err |-> TRUE, v |-> NoVersion]

\* Parse.  Positions count from 1, and 0 stands for Go's -1.
Parse(str) ==
    LET s1 == RemoveFirst(str, "v")
        parts == SplitN(s1, ".", 3)
    IN
    IF s1 = <<>> \/ Len(parts) # 3 THEN ParseFailed
    ELSE
    LET major == ParseUint(parts[1])
        minor == ParseUint(parts[2])
        rest == parts[3]
        hyphenIndex == Index(rest, "-")
        buildIndex == Index(rest, "+")
        buildFirst == hyphenIndex # 0 /\ buildIndex # 0 /\ buildIndex < hyphenIndex
        preIndex == IF buildFirst THEN 0 ELSE hyphenIndex
        subVersionIndex ==
            IF hyphenIndex # 0 /\ buildIndex = 0 THEN hyphenIndex
            ELSE IF hyphenIndex = 0 /\ buildIndex # 0 THEN buildIndex
            ELSE IF hyphenIndex = 0 /\ buildIndex = 0 THEN Len(rest) + 1
            ELSE IF buildFirst THEN buildIndex ELSE hyphenIndex
        patchStr == SubSeq(rest, 1, subVersionIndex - 1)
        patch == ParseUint(patchStr)
        preRels == IF buildIndex # 0
                   THEN SubSeq(rest, subVersionIndex + 1, buildIndex - 1)
                   ELSE SubSeq(rest, subVersionIndex + 1, Len(rest))
        prparts == IF preIndex # 0 THEN Split(preRels, ".") ELSE <<>>
        prs == [i \in DOMAIN prparts |-> NewPRVersion(prparts[i])]
        buildParts == IF buildIndex # 0
                      THEN Split(SubSeq(rest, buildIndex + 1, Len(rest)), ".")
                      ELSE <<>>
    IN
    IF \/ ~containsOnly(parts[1], numbers) \/ hasLeadingZeroes(parts[1]) \/ major.err
       \/ ~containsOnly(parts[2], numbers) \/ hasLeadingZeroes(parts[2]) \/ minor.err
       \/ ~containsOnly(patchStr, numbers) \/ hasLeadingZeroes(patchStr) \/ patch.err
       \/ \E i \in DOMAIN prs : prs[i].err
       \/ \E i \in DOMAIN buildParts :
            buildParts[i] = <<>> \/ ~containsOnly(buildParts[i], alphanum)
    THEN ParseFailed
    ELSE [err |-> FALSE,
          v |-> [Major |-> major.num, Minor |-> minor.num, Patch |-> patch.num,
                 Pre |-> [i \in DOMAIN prs |-> prs[i].pr],
                 Build |-> buildParts]]

\* New is an alias of Parse.
New(str) == Parse(str)

\* The version string behind each number of Versions.
VersionString(n) ==
    IF n = 0 THEN <<"1", ".", "0">>
    ELSE IF n = 1 THEN <<"1", ".", "0", ".", "0", "-", "r", "c", ".", "1">>
    ELSE <<"1", ".", "0", ".", "0">>

\* Digests: d1 of the published archive, d2 of a garbled transfer, d0 of an
\* empty body.  D1 is d1 written in upper case.
ToLower(s) == IF s = "D1" THEN "d1" ELSE s

SidecarFiles == {<<>>, <<"D1">>, <<"d2">>, <<"zz", "d1">>}

\* --------------------------------------------------------------- paths
\* A path is a sequence of segments; filepath.Join cleans the result.
RECURSIVE CleanFrom(_, _)
CleanFrom(acc, rest) ==
    IF rest = <<>> THEN acc
    ELSE IF Head(rest) = ".." /\ acc # <<>> /\ acc[Len(acc)] # ".."
         THEN CleanFrom(SubSeq(acc, 1, Len(acc) - 1), Tail(rest))
         ELSE CleanFrom(Append(acc, Head(rest)), Tail(rest))

Join(dir, name) == CleanFrom(<<>>, dir \o name)

IsUnder(dir, p) == Len(p) > Len(dir) /\ SubSeq(p, 1, Len(dir)) = dir

TmpDir == <<"tmp">>
AssetsDir == Join(TmpDir, <<"assets">>)

\* Entries a published archive may hold, in archive order.
MasterEntries == << <<"elevate.cmd">>, <<"..", "evil.exe">>, <<"nvm.exe">> >>

RECURSIVE Pick(_, _, _)
Pick(master, S, i) ==
    IF i > Len(master) THEN <<>>
    ELSE IF i \in S THEN <<master[i]>> \o Pick(master, S, i + 1)
         ELSE Pick(master, S, i + 1)

Archives == {Pick(MasterEntries, S, 1) : S \in {{2}, {1, 3}, {2, 3}, {1, 2, 3}}}

\* Files of the installation directory, in the lexical order filepath.Walk uses.
WalkOrder == <<"elevate.cmd", "nvm.exe", "update.exe">>
LiveNames == {"elevate.cmd", "nvm.exe", "update.exe", "updater.bat"}
LiveInit == [n \in LiveNames |->
               IF n \in {"elevate.cmd", "nvm.exe"} THEN "old" ELSE "absent"]

VARIABLES
    mode,            \* "console" or "ui" (--show-progress-ui)
    version,         \* the running version handed to Run
    verbose,         \* --verbose
    arg,             \* argument of a function applied on its own
    res,             \* what the function returned
    update,          \* *Update built by checkForUpdate
    pc,              \* position of the orchestrator
    out,             \* event the orchestrator is blocked sending, or NoEvent
    retErr,          \* run returned a non-nil error
    idx,             \* loop index of the warning loops
    cpc,             \* position of the status consumer
    s,               \* event the consumer is handling
    delivered,       \* events received from the status channel, in order
    exitCode,        \* Run's exitCode variable (progress-UI mode)
    alive,           \* the orchestrator process is in the process table
    exitStatus,      \* status the process ended with
    interrupted,     \* the process was ended by the signal handler
    dlg,             \* progress dialog: "none", "open", "closed", "canceled"
    ctask,           \* dialog cancel task: "none", "waiting"
    cout,            \* event the cancel task is blocked sending, or NoEvent
    zipFile,         \* tmp/assets.zip
    checksumFile,    \* tmp/assets.zip.checksum.txt, as whitespace-delimited tokens
    computedChecksum,
    storedChecksum,
    written,         \* paths unzip has written
    unzipRan,        \* unzip has been called
    scratchAssets,   \* additional assets stored in tmp/assets
    bkpZip,          \* backup.zip in the backup directory
    updateDir,       \* the .update directory exists
    updBackup,       \* .update/nvm4w-backup.zip
    staged,          \* .update/nvm.exe
    updExe,          \* .update/update.exe
    live,            \* files of the installation directory
    failed,          \* steps of this run that failed
    wpc,             \* position of the Watcher script
    wtrace,          \* operations the Watcher has performed
    cleanup,         \* the RemoveNVM4WBackup task is registered
    wExit            \* exit code of the Watcher

ovars == <<update, pc, out, retErr, idx>>
cvars == <<cpc, s, delivered, exitCode>>
pvars == <<alive, exitStatus, interrupted>>
uvars == <<dlg, ctask, cout>>
dvars == <<zipFile, checksumFile, computedChecksum, storedChecksum, written, unzipRan, scratchAssets>>
fvars == <<bkpZip, updateDir, updBackup, staged, updExe, live>>
wvars == <<wpc, wtrace, cleanup, wExit>>
ivars == <<mode, version, verbose, arg, res>>
\* Everything but res: the state a function applied on its own leaves alone.
rvars == <<mode, version, verbose, arg, ovars, cvars, pvars, uvars, dvars, fvars,
           wvars, failed>>
vars == <<ivars, ovars, cvars, pvars, uvars, dvars, fvars, wvars, failed>>

\* tmp/assets.zip does not exist.
NoFile == [digest |-> "", corrupt |-> TRUE, entries |-> <<>>]

NoUpdate == [Version |-> 0, Assets |-> <<>>, Warnings |-> 0, VersionWarnings |-> 0]

NoArg == [op |-> "none"]
NoResult == [op |-> "none"]

\* The process right after Run has made the status channel.
InitRun ==
    /\ update = NoUpdate
    /\ pc = "start"
    /\ out = NoEvent
    /\ retErr = FALSE
    /\ idx = 0
    /\ cpc = "recv"
    /\ s = NoEvent
    /\ delivered = <<>>
    /\ exitCode = 0
    /\ alive = TRUE
    /\ exitStatus = 0
    /\ interrupted = FALSE
    /\ dlg = "none"
    /\ ctask = "none"
    /\ cout = NoEvent
    /\ zipFile = NoFile
    /\ checksumFile = <<>>
    /\ computedChecksum = ""
    /\ storedChecksum = ""
    /\ written = {}
    /\ unzipRan = FALSE
    /\ scratchAssets = {}
    /\ bkpZip = "absent"
    /\ updateDir = FALSE
    /\ updBackup = "absent"
    /\ staged = "absent"
    /\ updExe = "absent"
    /\ live = LiveInit
    /\ failed = {}
    /\ wpc = "notstarted"
    /\ wtrace = <<>>
    /\ cleanup = FALSE
    /\ wExit = 0

Init ==
    /\ mode \in {"console", "ui"}
    /\ version \in Versions
    /\ verbose \in BOOLEAN
    /\ arg = NoArg
    /\ res = NoResult
    /\ InitRun


\* ------------------------------------------------------- status channel
\* The consumer takes the event a blocked sender offers (case s := <-status).
Receive ==
    /\ alive
    /\ cpc = "recv"
    /\ \/ /\ out # NoEvent
          /\ s' = out
          /\ delivered' = Append(delivered, out)
          /\ out' = NoEvent
          /\ cout' = cout
       \/ /\ cout # NoEvent
          /\ s' = cout
          /\ delivered' = Append(delivered, cout)
          /\ cout' = NoEvent
          /\ out' = out
    /\ cpc' = "handle"
    /\ UNCHANGED <<ivars, update, pc, retErr, idx, exitCode, pvars, dlg, ctask,
                   dvars, fvars, wvars, failed>>

\* os.Exit(status): the process leaves the process table and its goroutines,
\* channel and dialog are gone; deferred calls do not run and files stay as
\* they are.
ExitBy(status, signal) ==
    /\ alive' = FALSE
    /\ exitStatus' = status
    /\ interrupted' = signal
    /\ pc' = "gone"
    /\ cpc' = "gone"
    /\ out' = NoEvent
    /\ cout' = NoEvent
    /\ s' = NoEvent
    /\ retErr' = FALSE
    /\ idx' = 0
    /\ exitCode' = 0
    /\ dlg' = "none"
    /\ ctask' = "none"
    /\ UNCHANGED <<ivars, update, delivered, dvars, fvars, wvars, failed>>

Exit(status) == ExitBy(status, FALSE)

\* SignalHandler with a fault: the handler also ends the child processes.
SignalHandler_KillsWatcher ==
    /\ alive
    /\ mode = "console"
    /\ alive' = FALSE
    /\ exitStatus' = 0
    /\ interrupted' = TRUE
    /\ pc' = "gone"
    /\ cpc' = "gone"
    /\ out' = NoEvent
    /\ cout' = NoEvent
    /\ s' = NoEvent
    /\ retErr' = FALSE
    /\ idx' = 0
    /\ exitCode' = 0
    /\ dlg' = "none"
    /\ ctask' = "none"
    /\ wpc' = IF wpc = "wait" THEN "halted" ELSE wpc
    /\ wExit' = IF wpc = "wait" THEN 1 ELSE wExit
    /\ UNCHANGED <<ivars, update, delivered, dvars, fvars, wtrace, cleanup, failed>>

\* Run, console mode: the signal handler task takes os.Interrupt or SIGTERM
\* and ends the process with status 0.
SignalHandler ==
    /\ alive
    /\ mode = "console"
    /\ ExitBy(0, TRUE)

\* ConsoleHandle with a fault: the error is printed and the loop goes on.
ConsoleHandle_KeepsReceiving ==
    /\ alive
    /\ mode = "console"
    /\ cpc = "handle"
    /\ cpc' = IF s.Done THEN "returned" ELSE "recv"
    /\ UNCHANGED <<ivars, ovars, s, delivered, exitCode, pvars, uvars, dvars,
                   fvars, wvars, failed>>

\* Console consumer: an Err ends the process with status 1, Done ends the task.
ConsoleHandle ==
    /\ alive
    /\ mode = "console"
    /\ cpc = "handle"
    /\ IF s.Err # ""
       THEN Exit(1)
       ELSE /\ cpc' = IF s.Done THEN "returned" ELSE "recv"
            /\ UNCHANGED <<ivars, ovars, s, delivered, exitCode, pvars, uvars,
                           dvars, fvars, wvars, failed>>

\* UIHandle with a fault: after an Err the task goes back to receiving.
UIHandle_NoReturnOnErr ==
    /\ alive
    /\ mode = "ui"
    /\ cpc = "handle"
    /\ IF s.Cancel
       THEN /\ cpc' = "returned"
            /\ UNCHANGED <<exitCode, dlg>>
            /\ UNCHANGED <<ivars, ovars, s, delivered, pvars, ctask, cout, dvars,
                           fvars, wvars, failed>>
       ELSE IF s.Err # ""
       THEN IF dlg = "none"
            THEN Exit(2)
            ELSE /\ exitCode' = 1
                 /\ dlg' = IF dlg = "open" THEN "closed" ELSE dlg
                 /\ cpc' = "recv"
                 /\ UNCHANGED <<ivars, ovars, s, delivered, pvars, ctask, cout,
                                dvars, fvars, wvars, failed>>
       ELSE /\ cpc' = IF s.Done THEN "returned" ELSE "recv"
            /\ UNCHANGED <<exitCode, dlg>>
            /\ UNCHANGED <<ivars, ovars, s, delivered, pvars, ctask, cout, dvars,
                           fvars, wvars, failed>>

\* Progress-UI consumer: Cancel, Err and Done end the task; Err sets exitCode
\* and closes the dialog.  dlg is a variable of Run the update task assigns
\* after its first possible send: an Err handled before that calls Text on
\* the nil dialog, and the panic ends the process with status 2.
UIHandle ==
    /\ alive
    /\ mode = "ui"
    /\ cpc = "handle"
    /\ IF s.Cancel
       THEN /\ cpc' = "returned"
            /\ UNCHANGED <<exitCode, dlg>>
            /\ UNCHANGED <<ivars, ovars, s, delivered, pvars, ctask, cout, dvars,
                           fvars, wvars, failed>>
       ELSE IF s.Err # ""
       THEN IF dlg = "none"
            THEN Exit(2)
            ELSE /\ exitCode' = 1
                 /\ dlg' = IF dlg = "open" THEN "closed" ELSE dlg
                 /\ cpc' = "returned"
                 /\ UNCHANGED <<ivars, ovars, s, delivered, pvars, ctask, cout,
                                dvars, fvars, wvars, failed>>
       ELSE /\ cpc' = IF s.Done THEN "returned" ELSE "recv"
            /\ UNCHANGED <<exitCode, dlg>>
            /\ UNCHANGED <<ivars, ovars, s, delivered, pvars, ctask, cout, dvars,
                           fvars, wvars, failed>>

\* UIMainExit with a fault: Run waits for the update task as well.
UIMainExit_WaitsForUpdateTask ==
    /\ alive
    /\ mode = "ui"
    /\ cpc = "returned"
    /\ pc = "returned"
    /\ Exit(exitCode)

\* Run, progress-UI mode: wg.Wait() returns once the consumer task is done.
UIMainExit ==
    /\ alive
    /\ mode = "ui"
    /\ cpc = "returned"
    /\ Exit(exitCode)

\* The caller of Run (console mode): status 1 for an error, 0 otherwise.
CallerExit ==
    /\ alive
    /\ mode = "console"
    /\ pc = "returned"
    /\ Exit(IF retErr THEN 1 ELSE 0)

\* The user closes the progress dialog.
UserCancel ==
    /\ alive
    /\ dlg = "open"
    /\ dlg' = "canceled"
    /\ UNCHANGED <<ivars, ovars, cvars, pvars, ctask, cout, dvars, fvars, wvars,
                   failed>>

\* Dialog cancel task: once dlg.Done() is closed, dlg.Complete() is asked again
\* and again and every zenity.ErrCanceled is reported.  A dialog the user
\* canceled gives ErrCanceled; one the consumer closed may give it too.
CancelTask ==
    /\ alive
    /\ ctask = "waiting"
    /\ dlg \in {"canceled", "closed"}
    /\ cout = NoEvent
    /\ cout' = CancelEvent
    /\ UNCHANGED <<ivars, ovars, cvars, pvars, dlg, ctask, dvars, fvars, wvars,
                   failed>>

\* ------------------------------------------------------------ orchestrator
\* The orchestrator is at label l and not blocked in a send.
At(l) == alive /\ pc = l /\ out = NoEvent

\* semver.New of each version string: the error and the version.
ParsedVersions == [n \in Versions |-> New(VersionString(n))]

\* semver.New(version) returns no error.
ParseOK(n) == ~ParsedVersions[n].err

\* Advisory feeds with at most MaxWarnings messages: <<global, for the version>>.
WarningCounts ==
    {w \in (0..MaxWarnings) \X (0..MaxWarnings) : w[1] + w[2] <= MaxWarnings}

\* What the release endpoint gives: nothing usable (the request or the JSON
\* parse failed), or a version and the additional assets.
Releases ==
    {[ok |-> FALSE, Version |-> 0, Assets |-> <<>>]}
    \cup {[ok |-> TRUE, Version |-> v, Assets |-> a] :
            v \in Versions, a \in {<<>>, <<"update.exe">>}}

\* What the advisory feed gives: no response, a body json.Unmarshal fails on
\* (a syntax error leaves the map empty, a value of the wrong type leaves the
\* entries decoded so far), or the messages under "all" and under the version.
Feeds ==
    {[fetched |-> FALSE, parsed |-> FALSE, all |-> 0, forVersion |-> 0]}
    \cup {[fetched |-> TRUE, parsed |-> FALSE, all |-> n, forVersion |-> 0] :
            n \in {0, MaxWarnings}}
    \cup {[fetched |-> TRUE, parsed |-> TRUE, all |-> w[1], forVersion |-> w[2]] :
            w \in WarningCounts}

\* checkForUpdate: the descriptor, whether an error is returned with it, and
\* the request that failed.
checkForUpdate(release, feed) ==
    IF ~release.ok THEN [err |-> TRUE, u |-> NoUpdate, failure |-> "check"]
    ELSE IF ~feed.fetched
    THEN [err |-> TRUE,
          u |-> [Version |-> release.Version, Assets |-> release.Assets,
                 Warnings |-> 0, VersionWarnings |-> 0],
          failure |-> "feed_fetch"]
    ELSE [err |-> FALSE,
          u |-> [Version |-> release.Version, Assets |-> release.Assets,
                 Warnings |-> feed.all, VersionWarnings |-> feed.forVersion],
          failure |-> IF feed.parsed THEN "none" ELSE "feed_parse"]

CheckForUpdateResults ==
    {checkForUpdate(release, feed) : release \in Releases, feed \in Feeds}

\* The steps that have failed, with the one checkForUpdate reports.
FailedWith(failure) == IF failure = "none" THEN failed ELSE failed \cup {failure}

\* Run, progress-UI mode: the update task checks for the update itself.
UICheckForUpdate ==
    /\ mode = "ui"
    /\ At("start")
    /\ \E r \in CheckForUpdateResults :
         /\ update' = r.u
         /\ out' = IF r.err THEN ErrEvent("failed to obtain update data") ELSE NoEvent
         /\ failed' = FailedWith(r.failure)
    /\ pc' = "ui_dialog"
    /\ UNCHANGED <<ivars, retErr, idx, cvars, pvars, uvars, dvars, fvars, wvars>>

\* Run, progress-UI mode: open the dialog, start the cancel task, announce.
UIOpenDialog ==
    /\ At("ui_dialog")
    /\ dlg' = "open"
    /\ ctask' = "waiting"
    /\ out' = TextEvent("Validating version...")
    /\ pc' = "warnings"
    /\ UNCHANGED <<ivars, update, retErr, idx, cvars, pvars, cout, dvars, fvars,
                   wvars, failed>>

\* run, console mode: retrieve the remote metadata.
RunCheckForUpdate ==
    /\ mode = "console"
    /\ At("start")
    /\ \E r \in CheckForUpdateResults :
         /\ update' = r.u
         /\ retErr' = r.err
         /\ pc' = IF r.err THEN "returned" ELSE "warnings"
         /\ failed' = FailedWith(r.failure)
    /\ UNCHANGED <<ivars, out, idx, cvars, pvars, uvars, dvars, fvars, wvars>>

\* run: one Warn event per global warning.
RunWarnings ==
    /\ At("warnings")
    /\ IF idx < update.Warnings
       THEN /\ out' = WarnEvent("warning")
            /\ idx' = idx + 1
            /\ pc' = pc
       ELSE /\ out' = out
            /\ idx' = 0
            /\ pc' = "semver"
    /\ UNCHANGED <<ivars, update, retErr, cvars, pvars, uvars, dvars, fvars, wvars,
                   failed>>

\* RunCompareVersions with a fault: LTE in the place of LT.
RunCompareVersions_UsesLTE ==
    /\ At("semver")
    /\ IF ~ParseOK(version) \/ ~ParseOK(update.Version)
       THEN /\ retErr' = TRUE
            /\ pc' = "returned"
            /\ out' = out
            /\ failed' = failed \cup {"check"}
       ELSE /\ retErr' = retErr
            /\ failed' = failed
            /\ IF LTE(ParsedVersions[version].v, ParsedVersions[update.Version].v)
               THEN IF update.VersionWarnings > 0
                    THEN pc' = "vwarnings" /\ out' = out
                    ELSE pc' = "mktmp" /\ out' = TextEvent("downloading...")
               ELSE pc' = "return_nil" /\ out' = DoneEvent("nvm is up to date")
    /\ UNCHANGED <<ivars, update, idx, cvars, pvars, uvars, dvars, fvars, wvars>>

\* run: parse both versions and decide whether the update applies.
RunCompareVersions ==
    /\ At("semver")
    /\ IF ~ParseOK(version) \/ ~ParseOK(update.Version)
       THEN /\ retErr' = TRUE
            /\ pc' = "returned"
            /\ out' = out
            /\ failed' = failed \cup {"check"}
       ELSE /\ retErr' = retErr
            /\ failed' = failed
            /\ IF LT(ParsedVersions[version].v, ParsedVersions[update.Version].v)
               THEN IF update.VersionWarnings > 0
                    THEN pc' = "vwarnings" /\ out' = out
                    ELSE pc' = "mktmp" /\ out' = TextEvent("downloading...")
               ELSE pc' = "return_nil" /\ out' = DoneEvent("nvm is up to date")
    /\ UNCHANGED <<ivars, update, idx, cvars, pvars, uvars, dvars, fvars, wvars>>

\* run: one Warn event per version warning, then "downloading...".
RunVersionWarnings ==
    /\ At("vwarnings")
    /\ IF idx < update.VersionWarnings
       THEN /\ out' = WarnEvent("version warning")
            /\ idx' = idx + 1
            /\ pc' = pc
       ELSE /\ out' = TextEvent("downloading...")
            /\ idx' = 0
            /\ pc' = "mktmp"
    /\ UNCHANGED <<ivars, update, retErr, cvars, pvars, uvars, dvars, fvars, wvars,
                   failed>>

\* run: return nil after the "up to date" event has been taken.
RunReturnNil ==
    /\ At("return_nil")
    /\ pc' = "returned"
    /\ UNCHANGED <<ivars, update, out, retErr, idx, cvars, pvars, uvars, dvars,
                   fvars, wvars, failed>>


\* run: make the scratch directory; a failure is reported and the run goes on.
RunMkdirTemp ==
    /\ At("mktmp")
    /\ \E ok \in BOOLEAN :
         /\ out' = IF ok THEN NoEvent ELSE ErrEvent("failed to create temporary directory")
         /\ failed' = IF ok THEN failed ELSE failed \cup {"mktmp"}
    /\ pc' = "download"
    /\ UNCHANGED <<ivars, update, retErr, idx, cvars, pvars, uvars, dvars, fvars, wvars>>

\* What get(source) can store in assets.zip when it succeeds: the published
\* archive, a published archive that is no zip file, or a garbled transfer.
DownloadedArchives ==
    {[digest |-> "d1", corrupt |-> FALSE, entries |-> a] : a \in Archives}
    \cup {[digest |-> "d1", corrupt |-> TRUE, entries |-> <<>>],
          [digest |-> "d2", corrupt |-> TRUE, entries |-> <<>>]}

EmptyBody == [digest |-> "d0", corrupt |-> TRUE, entries |-> <<>>]

\* run: download the archive and write it to assets.zip (an empty body on failure).
RunDownload ==
    /\ At("download")
    /\ \/ /\ \E z \in DownloadedArchives : zipFile' = z
          /\ UNCHANGED <<out, failed>>
       \/ /\ zipFile' = EmptyBody
          /\ out' = ErrEvent("failed to download new version")
          /\ failed' = failed \cup {"download"}
    /\ pc' = "get_checksum"
    /\ UNCHANGED <<ivars, update, retErr, idx, cvars, pvars, uvars, checksumFile,
                   computedChecksum, storedChecksum, written, unzipRan,
                   scratchAssets, fvars, wvars>>

\* run: download the sidecar digest; a failure is returned, not reported, and
\* the deferred os.RemoveAll(tmp) runs.
RunGetChecksum ==
    /\ At("get_checksum")
    /\ \/ /\ \E f \in SidecarFiles : checksumFile' = f
          /\ pc' = "announce_verify"
          /\ UNCHANGED <<retErr, failed, zipFile>>
       \/ /\ retErr' = TRUE
          /\ pc' = "returned"
          /\ failed' = failed \cup {"download"}
          /\ zipFile' = NoFile
          /\ UNCHANGED checksumFile
    /\ UNCHANGED <<ivars, update, out, idx, cvars, pvars, uvars,
                   computedChecksum, storedChecksum, written, unzipRan,
                   scratchAssets, fvars, wvars>>

RunAnnounceVerify ==
    /\ At("announce_verify")
    /\ out' = TextEvent("verifying checksum...")
    /\ pc' = "md5"
    /\ UNCHANGED <<ivars, update, retErr, idx, cvars, pvars, uvars, dvars, fvars,
                   wvars, failed>>

\* run, step 1: computeMD5Checksum of assets.zip.
RunComputeChecksum ==
    /\ At("md5")
    /\ \/ /\ computedChecksum' = zipFile.digest
          /\ UNCHANGED <<out, failed>>
       \/ /\ computedChecksum' = ""
          /\ out' = ErrEvent("Error computing checksum")
          /\ failed' = failed \cup {"verify"}
    /\ pc' = "read_sum"
    /\ UNCHANGED <<ivars, update, retErr, idx, cvars, pvars, uvars, zipFile,
                   checksumFile, storedChecksum, written, unzipRan, scratchAssets,
                   fvars, wvars>>

\* readChecksumFromFile: fmt.Fscan reads the first token, EOF is an error.
readChecksumFromFile(f) ==
    IF f = <<>> THEN [err |-> TRUE, checksum |-> ""]
    ELSE [err |-> FALSE, checksum |-> Head(f)]

\* run, step 2: read the stored checksum.
RunReadChecksum ==
    /\ At("read_sum")
    /\ LET r == readChecksumFromFile(checksumFile) IN
         /\ storedChecksum' = r.checksum
         /\ out' = IF r.err THEN ErrEvent("EOF") ELSE NoEvent
         /\ failed' = IF r.err THEN failed \cup {"verify"} ELSE failed
    /\ pc' = "compare"
    /\ UNCHANGED <<ivars, update, retErr, idx, cvars, pvars, uvars, zipFile,
                   checksumFile, computedChecksum, written, unzipRan,
                   scratchAssets, fvars, wvars>>

\* ChecksumMismatch with a fault: the two texts are compared as they are.
ChecksumMismatch_CaseSensitive(computed, stored) == computed # stored

\* strings.ToLower(computedChecksum) != strings.ToLower(storedChecksum)
ChecksumMismatch(computed, stored) == ToLower(computed) # ToLower(stored)

\* run, step 3: compare the two checksums.
RunCompareChecksum ==
    /\ At("compare")
    /\ LET bad == ChecksumMismatch(computedChecksum, storedChecksum) IN
         /\ out' = IF bad THEN ErrEvent("checksum mismatch") ELSE NoEvent
         /\ failed' = IF bad THEN failed \cup {"verify"} ELSE failed
    /\ pc' = "announce_extract"
    /\ UNCHANGED <<ivars, update, retErr, idx, cvars, pvars, uvars, dvars, fvars, wvars>>

RunAnnounceExtract ==
    /\ At("announce_extract")
    /\ out' = TextEvent("extracting update...")
    /\ pc' = "unzip"
    /\ UNCHANGED <<ivars, update, retErr, idx, cvars, pvars, uvars, dvars, fvars,
                   wvars, failed>>

\* unzip(src, dest), failing at entry k (k past the last entry: no failure):
\* every entry before k is written to filepath.Join(dest, f.Name).  Entries
\* are files; the name of an entry is not examined.
unzip(zip, dest, k) ==
    IF zip.corrupt THEN [err |-> TRUE, paths |-> {}]
    ELSE [err |-> k <= Len(zip.entries),
          paths |-> {Join(dest, zip.entries[i]) : i \in 1..(k - 1)}]

\* run: extract assets.zip into tmp/assets.
RunUnzip ==
    /\ At("unzip")
    /\ \E k \in 1..(Len(zipFile.entries) + 1) :
         LET r == unzip(zipFile, AssetsDir, k) IN
           /\ written' = written \cup r.paths
           /\ out' = IF r.err THEN ErrEvent("unzip") ELSE NoEvent
           /\ failed' = IF r.err THEN failed \cup {"extract"} ELSE failed
    /\ unzipRan' = TRUE
    /\ pc' = "assets"
    /\ UNCHANGED <<ivars, update, retErr, idx, cvars, pvars, uvars, zipFile,
                   checksumFile, computedChecksum, storedChecksum, scratchAssets,
                   fvars, wvars>>

\* run: announce the additional assets, if there are any.
RunAssets ==
    /\ At("assets")
    /\ IF Len(update.Assets) > 0
       THEN out' = TextEvent("downloading additional assets...") /\ pc' = "asset_get"
       ELSE out' = out /\ pc' = "announce_apply"
    /\ idx' = 0
    /\ UNCHANGED <<ivars, update, retErr, cvars, pvars, uvars, dvars, fvars, wvars,
                   failed>>

\* run: fetch the next additional asset and store the body under its name.
\* An asset name without the http prefix is fetched from update.SourceURL.
RunAssetGet ==
    /\ At("asset_get")
    /\ IF idx < Len(update.Assets)
       THEN /\ \/ /\ scratchAssets' = scratchAssets \cup {<<update.Assets[idx + 1], "archive">>}
                  /\ UNCHANGED <<out, failed>>
               \/ /\ scratchAssets' = scratchAssets \cup {<<update.Assets[idx + 1], "empty">>}
                  /\ out' = ErrEvent("failed to download asset")
                  /\ failed' = failed \cup {"download"}
            /\ idx' = idx + 1
            /\ pc' = pc
       ELSE /\ idx' = 0
            /\ pc' = "announce_apply"
            /\ UNCHANGED <<scratchAssets, out, failed>>
    /\ UNCHANGED <<ivars, update, retErr, cvars, pvars, uvars, zipFile, checksumFile,
                   computedChecksum, storedChecksum, written, unzipRan, fvars, wvars>>

RunAnnounceApply ==
    /\ At("announce_apply")
    /\ out' = TextEvent("applying update...")
    /\ pc' = "mkbkp"
    /\ UNCHANGED <<ivars, update, retErr, idx, cvars, pvars, uvars, dvars, fvars,
                   wvars, failed>>


\* ------------------------------------------------------ backup and staging
\* copyFile(src, dst): os.Open(src), os.Create(dst) (which truncates dst),
\* io.Copy, then os.Stat and os.Chmod.  outcome is what the file system lets
\* happen.
CopyOutcomes == {"ok", "create_fail", "copy_fail", "chmod_fail"}

copyFile(src, dst, outcome) ==
    IF src = "absent" \/ outcome = "create_fail" THEN [err |-> TRUE, dst |-> dst]
    ELSE IF outcome = "copy_fail" THEN [err |-> TRUE, dst |-> "partial"]
    ELSE IF outcome = "chmod_fail" THEN [err |-> TRUE, dst |-> src]
    ELSE [err |-> FALSE, dst |-> src]

\* run: make the backup directory; a failure is reported and the run goes on.
RunMkdirBackup ==
    /\ At("mkbkp")
    /\ \E ok \in BOOLEAN :
         /\ out' = IF ok THEN NoEvent ELSE ErrEvent("failed to create backup directory")
         /\ failed' = IF ok THEN failed ELSE failed \cup {"backup"}
    /\ pc' = "zipdir"
    /\ UNCHANGED <<ivars, update, retErr, idx, cvars, pvars, uvars, dvars, fvars, wvars>>

\* zipDirectory(currentPath, backup.zip): the zip is created, then filled by
\* filepath.Walk, which stops at the first error.
ZipOutcomes == {"ok", "create_fail", "walk_fail"}

zipDirectory(outcome) ==
    IF outcome = "create_fail" THEN [err |-> TRUE, zip |-> "absent"]
    ELSE IF outcome = "walk_fail" THEN [err |-> TRUE, zip |-> "partial"]
    ELSE [err |-> FALSE, zip |-> "complete"]

\* run: archive the installation directory; a failure is reported and the run goes on.
RunZipDirectory ==
    /\ At("zipdir")
    /\ \E o \in ZipOutcomes :
         LET r == zipDirectory(o) IN
           /\ bkpZip' = r.zip
           /\ out' = IF r.err THEN ErrEvent("failed to create backup") ELSE NoEvent
           /\ failed' = IF r.err THEN failed \cup {"backup"} ELSE failed
    /\ pc' = "copy_backup"
    /\ UNCHANGED <<ivars, update, retErr, idx, cvars, pvars, uvars, dvars, updateDir,
                   updBackup, staged, updExe, live, wvars>>

\* run: create .update and copy the backup into it; both results are dropped.
RunCopyBackup ==
    /\ At("copy_backup")
    /\ \E mk \in BOOLEAN, o \in CopyOutcomes :
         LET r == copyFile(bkpZip, updBackup, IF mk THEN o ELSE "create_fail") IN
           /\ updateDir' = mk
           /\ updBackup' = r.dst
           /\ failed' = IF r.err THEN failed \cup {"backup"} ELSE failed
    /\ pc' = "copy_dir"
    /\ UNCHANGED <<ivars, update, out, retErr, idx, cvars, pvars, uvars, dvars,
                   bkpZip, staged, updExe, live, wvars>>

\* The files of tmp/assets and what each holds.
AssetNames == {a[1] : a \in scratchAssets}
ScratchNames ==
    {p[Len(p)] : p \in {q \in written : IsUnder(AssetsDir, q)}} \cup AssetNames
ScratchContent(n) ==
    IF n \in AssetNames THEN (CHOOSE a \in scratchAssets : a[1] = n)[2]
    ELSE IF n \in ScratchNames THEN "new" ELSE "absent"

\* Locked with a fault: the destination is replaced without opening it for
\* writing, which the system allows for a running executable as well.
Locked_ReplacedByRename(n) == FALSE

\* The running executable cannot be opened for writing while its process lives.
Locked(n) == n = "nvm.exe" /\ alive

\* copyDirContents(tmp/assets, currentPath): filepath.Walk in lexical order,
\* copyFile for each file, stopping at the first error.  The file system makes
\* the k-th copy end with outcome o.
RECURSIVE copyDirContents(_, _, _, _)
copyDirContents(i, dir, k, o) ==
    IF i > Len(WalkOrder) THEN [err |-> FALSE, dir |-> dir]
    ELSE LET n == WalkOrder[i] IN
         IF n \notin ScratchNames THEN copyDirContents(i + 1, dir, k, o)
         ELSE LET r == copyFile(ScratchContent(n), dir[n],
                                IF Locked(n) THEN "create_fail"
                                ELSE IF i = k THEN o ELSE "ok") IN
              IF r.err THEN [err |-> TRUE, dir |-> [dir EXCEPT ![n] = r.dst]]
              ELSE copyDirContents(i + 1, [dir EXCEPT ![n] = r.dst], k, o)

\* run: copy the extracted files over the installation; the result is dropped.
RunCopyDirContents ==
    /\ At("copy_dir")
    /\ \E k \in 1..Len(WalkOrder), o \in CopyOutcomes :
         live' = copyDirContents(1, live, k, o).dir
    /\ pc' = "stage"
    /\ UNCHANGED <<ivars, update, out, retErr, idx, cvars, pvars, uvars, dvars,
                   bkpZip, updateDir, updBackup, staged, updExe, wvars, failed>>

\* run: stage the new executable as .update/nvm.exe; the result is dropped.
RunStage ==
    /\ At("stage")
    /\ \E o \in CopyOutcomes :
         LET r == copyFile(ScratchContent("nvm.exe"), staged,
                           IF updateDir THEN o ELSE "create_fail") IN
           /\ staged' = r.dst
           /\ failed' = IF r.err THEN failed \cup {"staging"} ELSE failed
    /\ pc' = "verbose_test"
    /\ UNCHANGED <<ivars, update, out, retErr, idx, cvars, pvars, uvars, dvars,
                   bkpZip, updateDir, updBackup, updExe, live, wvars>>

\* run: with --verbose, run the staged executable once and report a failure.
RunVerboseTest ==
    /\ At("verbose_test")
    /\ \E ok \in BOOLEAN :
         /\ ok => (staged = "new" \/ ~verbose)
         /\ ~ok => verbose
         /\ out' = IF ok THEN NoEvent ELSE ErrEvent("error running nvm.exe")
    /\ pc' = "update_exe"
    /\ UNCHANGED <<ivars, update, retErr, idx, cvars, pvars, uvars, dvars, fvars,
                   wvars, failed>>

\* run: copy update.exe into .update when the scratch directory holds one;
\* a failure is reported and ends the process.
RunCopyUpdateExe ==
    /\ At("update_exe")
    /\ IF "update.exe" \in ScratchNames
       THEN \E o \in CopyOutcomes :
              LET r == copyFile(ScratchContent("update.exe"), updExe,
                                IF updateDir THEN o ELSE "create_fail") IN
                /\ updExe' = r.dst
                /\ out' = IF r.err THEN ErrEvent("failed to copy update.exe") ELSE NoEvent
                /\ pc' = IF r.err THEN "exit1" ELSE "au_prepare"
                /\ failed' = IF r.err THEN failed \cup {"staging"} ELSE failed
       ELSE /\ pc' = "au_prepare"
            /\ UNCHANGED <<updExe, out, failed>>
    /\ UNCHANGED <<ivars, update, retErr, idx, cvars, pvars, uvars, dvars, bkpZip,
                   updateDir, updBackup, staged, live, wvars>>

\* os.Exit(1) after a reported failure.
RunExit1 ==
    /\ At("exit1")
    /\ Exit(1)

\* -------------------------------------------------------------- autoupdate
\* autoupdate: own path, temporary directory, remove_backup.bat.
AutoupdatePrepare ==
    /\ At("au_prepare")
    /\ \E ok \in BOOLEAN :
         /\ out' = IF ok THEN NoEvent ELSE ErrEvent("autoupdate")
         /\ pc' = IF ok THEN "au_script" ELSE "exit1"
         /\ failed' = IF ok THEN failed ELSE failed \cup {"watcher"}
    /\ UNCHANGED <<ivars, update, retErr, idx, cvars, pvars, uvars, dvars, fvars, wvars>>

\* autoupdate: write updater.bat next to the executable.
AutoupdateWriteScript ==
    /\ At("au_script")
    /\ \E ok \in BOOLEAN :
         /\ live' = IF ok THEN [live EXCEPT !["updater.bat"] = "script"] ELSE live
         /\ out' = IF ok THEN NoEvent ELSE ErrEvent("error creating updater script")
         /\ pc' = IF ok THEN "au_start" ELSE "exit1"
         /\ failed' = IF ok THEN failed ELSE failed \cup {"watcher"}
    /\ UNCHANGED <<ivars, update, retErr, idx, cvars, pvars, uvars, dvars, bkpZip,
                   updateDir, updBackup, staged, updExe, wvars>>

\* AutoupdateStart with a fault: the error of cmd.Start is dropped.
AutoupdateStart_DropsStartError ==
    /\ At("au_start")
    /\ \E ok \in BOOLEAN :
         /\ wpc' = IF ok THEN "wait" ELSE wpc
         /\ out' = NoEvent
         /\ pc' = "au_done"
         /\ failed' = IF ok THEN failed ELSE failed \cup {"watcher"}
    /\ UNCHANGED <<ivars, update, retErr, idx, cvars, pvars, uvars, dvars, fvars,
                   wtrace, cleanup, wExit>>

\* autoupdate: start the Watcher with the pid, the staged file and the target.
AutoupdateStart ==
    /\ At("au_start")
    /\ \E ok \in BOOLEAN :
         /\ wpc' = IF ok THEN "wait" ELSE wpc
         /\ out' = IF ok THEN NoEvent ELSE ErrEvent("error starting updater script")
         /\ pc' = IF ok THEN "au_done" ELSE "exit1"
         /\ failed' = IF ok THEN failed ELSE failed \cup {"watcher"}
    /\ UNCHANGED <<ivars, update, retErr, idx, cvars, pvars, uvars, dvars, fvars,
                   wtrace, cleanup, wExit>>

\* autoupdate: report completion.
AutoupdateDone ==
    /\ At("au_done")
    /\ out' = DoneEvent("restarting app...")
    /\ pc' = "au_exit0"
    /\ UNCHANGED <<ivars, update, retErr, idx, cvars, pvars, uvars, dvars, fvars,
                   wvars, failed>>

\* autoupdate: os.Exit(0) once the Done event has been taken.
AutoupdateExit ==
    /\ At("au_exit0")
    /\ Exit(0)


\* ----------------------------------------------------------------- Watcher
\* updater.bat %1 = pid of the orchestrator, %2 = .update/nvm.exe (staged),
\* %3 = the path of the running executable (live["nvm.exe"]).
Halt(op) ==
    /\ wpc' = "halted"
    /\ wExit' = 1
    /\ wtrace' = Append(wtrace, op)

\* WatcherPoll with a fault: the script goes on without looking for the pid.
WatcherPoll_NoPidCheck ==
    /\ wpc = "wait"
    /\ wpc' = "check_source"
    /\ UNCHANGED <<ivars, ovars, cvars, pvars, uvars, dvars, fvars, wtrace, cleanup,
                   wExit, failed>>

\* :wait -- tasklist finds the pid: wait one more second and look again, with
\* no limit on the number of rounds; otherwise go on.
WatcherPoll ==
    /\ wpc = "wait"
    /\ wpc' = IF alive THEN "wait" ELSE "check_source"
    /\ UNCHANGED <<ivars, ovars, cvars, pvars, uvars, dvars, fvars, wtrace, cleanup,
                   wExit, failed>>

\* if not exist "%~2" exit /b 1
WatcherCheckSource ==
    /\ wpc = "check_source"
    /\ IF staged = "absent"
       THEN Halt("no_source")
       ELSE /\ wpc' = "del_target"
            /\ UNCHANGED <<wtrace, wExit>>
    /\ UNCHANGED <<ivars, ovars, cvars, pvars, uvars, dvars, fvars, cleanup, failed>>

\* del "%~3"
WatcherDelTarget ==
    /\ wpc = "del_target"
    /\ \E ok \in BOOLEAN :
         live' = IF ok THEN [live EXCEPT !["nvm.exe"] = "absent"] ELSE live
    /\ wtrace' = Append(wtrace, "del_target")
    /\ wpc' = "probe"
    /\ UNCHANGED <<ivars, ovars, cvars, pvars, uvars, dvars, bkpZip, updateDir,
                   updBackup, staged, updExe, cleanup, wExit, failed>>

\* echo Test > "%~dp3test.txt" ; if errorlevel 1 exit /b 1
WatcherProbe ==
    /\ wpc = "probe"
    /\ \/ /\ wpc' = "copy"
          /\ UNCHANGED <<wtrace, wExit>>
       \/ Halt("not_writable")
    /\ UNCHANGED <<ivars, ovars, cvars, pvars, uvars, dvars, fvars, cleanup, failed>>

\* WatcherCopy with a fault: the errorlevel of copy is not looked at.
WatcherCopy_IgnoresErrorlevel ==
    /\ wpc = "copy"
    /\ \/ /\ live' = [live EXCEPT !["nvm.exe"] = staged]
          /\ wtrace' = Append(wtrace, "copy_ok")
       \/ /\ wtrace' = Append(wtrace, "copy_failed")
          /\ UNCHANGED live
    /\ wpc' = "verify"
    /\ UNCHANGED <<ivars, ovars, cvars, pvars, uvars, dvars, bkpZip, updateDir,
                   updBackup, staged, updExe, cleanup, wExit, failed>>

\* copy /y "%~2" "%~3" ; if errorlevel 1 exit /b %errorlevel%
WatcherCopy ==
    /\ wpc = "copy"
    /\ \/ /\ live' = [live EXCEPT !["nvm.exe"] = staged]
          /\ wtrace' = Append(wtrace, "copy_ok")
          /\ wpc' = "verify"
          /\ UNCHANGED wExit
       \/ /\ Halt("copy_failed")
          /\ UNCHANGED live
    /\ UNCHANGED <<ivars, ovars, cvars, pvars, uvars, dvars, bkpZip, updateDir,
                   updBackup, staged, updExe, cleanup, failed>>

\* if not exist "%~3" exit /b 1
WatcherVerify ==
    /\ wpc = "verify"
    /\ IF live["nvm.exe"] = "absent"
       THEN Halt("target_missing")
       ELSE /\ wtrace' = Append(wtrace, "verify_ok")
            /\ wpc' = "del_source"
            /\ UNCHANGED wExit
    /\ UNCHANGED <<ivars, ovars, cvars, pvars, uvars, dvars, fvars, cleanup, failed>>

\* del "%~2" ; if exist "%~2" exit /b 1
WatcherDelSource ==
    /\ wpc = "del_source"
    /\ \/ /\ staged' = "absent"
          /\ wtrace' = Append(wtrace, "del_staged")
          /\ wpc' = "schedule"
          /\ UNCHANGED wExit
       \/ /\ Halt("source_remains")
          /\ UNCHANGED staged
    /\ UNCHANGED <<ivars, ovars, cvars, pvars, uvars, dvars, bkpZip, updateDir,
                   updBackup, updExe, live, cleanup, failed>>

\* schtasks /create ... ; if not errorlevel 0 exit /b -- "not errorlevel 0"
\* means errorlevel < 0, which schtasks never returns.
WatcherSchedule ==
    /\ wpc = "schedule"
    /\ \E errorlevel \in {0, 1} :
         /\ cleanup' = (errorlevel = 0)
         /\ IF ~(errorlevel >= 0)
            THEN Halt("schedule_failed")
            ELSE /\ wtrace' = Append(wtrace, "schedule")
                 /\ wpc' = "finish"
                 /\ UNCHANGED wExit
    /\ UNCHANGED <<ivars, ovars, cvars, pvars, uvars, dvars, fvars, failed>>

\* del error.log ; del "%~f0" ; start "nvm://launch?action=upgrade_notify" ; exit /b 0
WatcherFinish ==
    /\ wpc = "finish"
    /\ live' = [live EXCEPT !["updater.bat"] = "absent"]
    /\ wtrace' = wtrace \o <<"del_script", "relaunch">>
    /\ wpc' = "done"
    /\ wExit' = 0
    /\ UNCHANGED <<ivars, ovars, cvars, pvars, uvars, dvars, bkpZip, updateDir,
                   updBackup, staged, updExe, cleanup, failed>>

\* ------------------------------------------------------------ specification
Next ==
    \/ Receive
    \/ ConsoleHandle
    \/ UIHandle
    \/ UIMainExit
    \/ CallerExit
    \/ SignalHandler
    \/ UserCancel
    \/ CancelTask
    \/ UICheckForUpdate
    \/ UIOpenDialog
    \/ RunCheckForUpdate
    \/ RunWarnings
    \/ RunCompareVersions
    \/ RunVersionWarnings
    \/ RunReturnNil
    \/ RunMkdirTemp
    \/ RunDownload
    \/ RunGetChecksum
    \/ RunAnnounceVerify
    \/ RunComputeChecksum
    \/ RunReadChecksum
    \/ RunCompareChecksum
    \/ RunAnnounceExtract
    \/ RunUnzip
    \/ RunAssets
    \/ RunAssetGet
    \/ RunAnnounceApply
    \/ RunMkdirBackup
    \/ RunZipDirectory
    \/ RunCopyBackup
    \/ RunCopyDirContents
    \/ RunStage
    \/ RunVerboseTest
    \/ RunCopyUpdateExe
    \/ RunExit1
    \/ AutoupdatePrepare
    \/ AutoupdateWriteScript
    \/ AutoupdateStart
    \/ AutoupdateDone
    \/ AutoupdateExit
    \/ WatcherPoll
    \/ WatcherCheckSource
    \/ WatcherDelTarget
    \/ WatcherProbe
    \/ WatcherCopy
    \/ WatcherVerify
    \/ WatcherDelSource
    \/ WatcherSchedule
    \/ WatcherFinish

Spec == Init /\ [][Next]_vars

\* Steps of the orchestrator task, of the consumer task with the main task of
\* Run, and of the Watcher process.  The Go scheduler runs every runnable
\* task, and the operating system every process, so each of the three takes
\* its step when it can; the user (SignalHandler, UserCancel) need not act.
OrchestratorNext ==
    \/ UICheckForUpdate \/ UIOpenDialog \/ RunCheckForUpdate \/ RunWarnings
    \/ RunCompareVersions \/ RunVersionWarnings \/ RunReturnNil \/ RunMkdirTemp
    \/ RunDownload \/ RunGetChecksum \/ RunAnnounceVerify \/ RunComputeChecksum
    \/ RunReadChecksum \/ RunCompareChecksum \/ RunAnnounceExtract \/ RunUnzip
    \/ RunAssets \/ RunAssetGet \/ RunAnnounceApply \/ RunMkdirBackup
    \/ RunZipDirectory \/ RunCopyBackup \/ RunCopyDirContents \/ RunStage
    \/ RunVerboseTest \/ RunCopyUpdateExe \/ RunExit1 \/ AutoupdatePrepare
    \/ AutoupdateWriteScript \/ AutoupdateStart \/ AutoupdateDone \/ AutoupdateExit
    \/ CallerExit

ConsumerNext == Receive \/ ConsoleHandle \/ UIHandle \/ UIMainExit

WatcherNext ==
    \/ WatcherPoll \/ WatcherCheckSource \/ WatcherDelTarget \/ WatcherProbe
    \/ WatcherCopy \/ WatcherVerify \/ WatcherDelSource \/ WatcherSchedule
    \/ WatcherFinish

\* Liveness is checked for one running version and without --verbose.
FairInit == Init /\ version = 1 /\ ~verbose

FairSpec ==
    /\ FairInit
    /\ [][Next]_vars
    /\ WF_vars(OrchestratorNext)
    /\ WF_vars(ConsumerNext)
    /\ WF_vars(WatcherNext)

\* ------------------------------------------------- semver, applied on its own
\* All sequences over S of length 0..n.
SeqsUpTo(S, n) == UNION {[1..k -> S] : k \in 0..n}

\* The canonical rendering MAJOR.MINOR.PATCH[-PRERELEASE][+BUILD] of three
\* numbers and two lists of identifiers.
Canonical(major, minor, patch, pre, build) ==
    JoinStrings(<<FormatUint(major), FormatUint(minor), FormatUint(patch)>>, <<".">>)
    \o (IF pre # <<>> THEN <<"-">> \o JoinStrings(pre, <<".">>) ELSE <<>>)
    \o (IF build # <<>> THEN <<"+">> \o JoinStrings(build, <<".">>) ELSE <<>>)

\* Prerelease identifiers: numeric without leading zero, or over [0-9A-Za-z-].
PreIdents ==
    {<<"1">>, <<"1", "0">>, <<"a">>, <<"R", "C", "-", "1">>, <<"d", "e", "v">>}

\* Build identifiers: over [0-9A-Za-z-], leading zeroes allowed.
BuildIdents == {<<"0", "0", "1">>, <<"b", "-", "7">>, <<"v", "2">>}

CanonicalStrings ==
    {Canonical(major, minor, patch, pre, build) :
        major \in {0, 1, 10}, minor \in {0, 2}, patch \in {0, 3},
        pre \in SeqsUpTo(PreIdents, MaxIdents), build \in SeqsUpTo(BuildIdents, 1)}

\* Versions to compare, among them the chain of the semver specification.
alpha == <<"a", "l", "p", "h", "a">>
beta == <<"b", "e", "t", "a">>
ComparedPre ==
    {<<>>, <<alpha>>, <<alpha, <<"1">>>>, <<alpha, <<"1", "0">>>>, <<alpha, beta>>,
     <<beta>>, <<<<"2">>>>, <<<<"1", "0">>>>, <<<<"B">>>>}
ComparedStrings ==
    {Canonical(major, 0, 0, pre, <<>>) : major \in {1, 2}, pre \in ComparedPre}
    \cup {Canonical(1, 0, 0, <<alpha>>, <<<<"b">>>>), Canonical(1, 0, 0, <<>>, <<<<"b">>>>),
          Canonical(1, 0, 1, <<>>, <<>>), Canonical(1, 1, 0, <<beta>>, <<>>)}

\* New of each string to compare.
ComparedVersions == [str \in ComparedStrings |-> New(str)]

\* Strings with fewer than three dot-separated fields.
ShortStrings ==
    {<<>>, <<"v">>, <<"1">>, <<"1", ".", "2">>, <<"v", "1", ".", "2">>}

\* Texts in the place of MAJOR, MINOR and PATCH: a number, nothing, a leading
\* zero, a letter after the digit, a v before the digit.
NumberTexts == {<<"1">>, <<>>, <<"0", "1">>, <<"1", "a">>, <<"v", "2">>}

\* Prerelease and build lists, with empty identifiers, a numeric identifier
\* with a leading zero and a character outside [0-9A-Za-z-].
AssembledPre ==
    {<<>>, << <<"a">> >>, << <<>> >>, << <<"0", "1">> >>, << <<"a", "_">> >>,
     << <<"a">>, <<>> >>}
AssembledBuild ==
    {<<>>, << <<"0", "1">> >>, << <<>> >>, << <<"b", "_">> >>, << <<"b">>, <<>> >>}

\* MAJOR.MINOR.PATCH[-PRERELEASE][+BUILD] put together from texts.
Assemble(nums, pre, build) ==
    JoinStrings(nums, <<".">>)
    \o (IF pre # <<>> THEN <<"-">> \o JoinStrings(pre, <<".">>) ELSE <<>>)
    \o (IF build # <<>> THEN <<"+">> \o JoinStrings(build, <<".">>) ELSE <<>>)

AssembledArgs ==
    {[op |-> "Parse", from |-> "assembled", s |-> Assemble(<<a, b, c>>, pre, build),
      nums |-> <<a, b, c>>, pre |-> pre, build |-> build] :
        a \in NumberTexts, b \in NumberTexts, c \in NumberTexts,
        pre \in AssembledPre, build \in AssembledBuild}

ParseInputs ==
    CanonicalStrings \cup ShortStrings \cup {x.s : x \in AssembledArgs}

\* Parse of each input string and, when it succeeds, String() of the version.
ParsedStrings ==
    [str \in ParseInputs |->
        LET r == Parse(str) IN
          [op |-> "Parse", err |-> r.err, v |-> r.v,
           str |-> IF r.err THEN <<>> ELSE String(r.v)]]

\* Available with a fault: LTE in the place of LT.
Available_UsesLTE(u, sinceVersion) ==
    LET currentVersion == New(sinceVersion)
        updateVersion == New(u.Version)
    IN IF currentVersion.err \/ updateVersion.err
       THEN [op |-> "Available", version |-> <<>>, flag |-> FALSE, err |-> TRUE, u |-> u]
       ELSE IF LTE(currentVersion.v, updateVersion.v)
       THEN [op |-> "Available", version |-> u.Version, flag |-> TRUE, err |-> FALSE, u |-> u]
       ELSE [op |-> "Available", version |-> <<>>, flag |-> FALSE, err |-> FALSE, u |-> u]

\* Update.Available(sinceVersion): the string, the flag and the error it
\* returns, and the descriptor after the call.
Available(u, sinceVersion) ==
    LET currentVersion == New(sinceVersion)
        updateVersion == New(u.Version)
    IN IF currentVersion.err \/ updateVersion.err
       THEN [op |-> "Available", version |-> <<>>, flag |-> FALSE, err |-> TRUE, u |-> u]
       ELSE IF LT(currentVersion.v, updateVersion.v)
       THEN [op |-> "Available", version |-> u.Version, flag |-> TRUE, err |-> FALSE, u |-> u]
       ELSE [op |-> "Available", version |-> <<>>, flag |-> FALSE, err |-> FALSE, u |-> u]

\* Version strings Available is applied to: a release, prereleases of it, a
\* later release, a release with build metadata, and two strings New rejects.
AvailableStrings ==
    {Canonical(1, 0, 0, <<>>, <<>>), Canonical(1, 0, 0, <<alpha>>, <<>>),
     Canonical(1, 0, 0, <<alpha, <<"1">>>>, <<>>), Canonical(1, 0, 0, <<<<"2">>>>, <<>>),
     Canonical(1, 0, 0, <<<<"1", "0">>>>, <<>>), Canonical(2, 0, 0, <<>>, <<>>),
     Canonical(1, 0, 0, <<>>, <<<<"b">>>>), <<"1", ".", "2">>, <<>>}

\* Available of each descriptor version and each running version.
AvailableResults ==
    [target \in AvailableStrings, since \in AvailableStrings |->
        Available([Version |-> target], since)]

SemverArgs ==
    {[op |-> "Parse", from |-> "canonical", s |-> str] : str \in CanonicalStrings}
    \cup {[op |-> "Parse", from |-> "short", s |-> str] : str \in ShortStrings}
    \cup AssembledArgs
    \cup {[op |-> "Available", u |-> [Version |-> target], since |-> since] :
            target \in AvailableStrings, since \in AvailableStrings}
    \cup {[op |-> "Compare", a |-> x, b |-> y, c |-> z,
            va |-> ComparedVersions[x].v, vb |-> ComparedVersions[y].v,
            vc |-> ComparedVersions[z].v] :
            x \in ComparedStrings, y \in ComparedStrings, z \in ComparedStrings}

SemverInit ==
    /\ mode = "console"
    /\ version = 0
    /\ verbose = FALSE
    /\ arg \in SemverArgs
    /\ res = NoResult
    /\ InitRun

\* Parse(s) and String() of the version, as tabulated in ParsedStrings.
ApplyParse ==
    /\ arg.op = "Parse"
    /\ res = NoResult
    /\ res' = ParsedStrings[arg.s]
    /\ UNCHANGED rvars

\* Compare, GT, GTE, LT and LTE on the versions va, vb and vc, which New
\* made of the strings a, b and c.
ApplyCompare ==
    /\ arg.op = "Compare"
    /\ res = NoResult
    /\ res' = [op |-> "Compare",
               aa |-> Compare(arg.va, arg.va), ab |-> Compare(arg.va, arg.vb),
               ba |-> Compare(arg.vb, arg.va), bc |-> Compare(arg.vb, arg.vc),
               ac |-> Compare(arg.va, arg.vc),
               gt |-> GT(arg.va, arg.vb), gte |-> GTE(arg.va, arg.vb),
               lt |-> LT(arg.va, arg.vb), lte |-> LTE(arg.va, arg.vb)]
    /\ UNCHANGED rvars

\* u.Available(since), as tabulated in AvailableResults.
ApplyAvailable ==
    /\ arg.op = "Available"
    /\ res = NoResult
    /\ res' = AvailableResults[arg.u.Version, arg.since]
    /\ UNCHANGED rvars

SemverNext == ApplyParse \/ ApplyCompare \/ ApplyAvailable

SemverSpec == SemverInit /\ [][SemverNext]_vars

\* ------------------------------------- the cleanup date, computed on its own
RetentionDays == 7   \* now.AddDate(0, 0, 7)
StartHour == 12      \* /st 12:00

\* A time is a day number and an hour of that day.
AddDate(t, days) == [day |-> t.day + days, hour |-> t.hour]

\* futureDate.Format("01/02/2006"): the date without the time of day.
FormatDate(t) == t.day

\* Hours since hour 0 of day 0.
Hours(t) == t.day * 24 + t.hour

\* strings.ToUpper on a text of ASCII characters.
ToUpper(str) ==
    [i \in DOMAIN str |->
        IF str[i] \in Range(LowerCase) THEN UpperCase[IndexIn(LowerCase, str[i])]
        ELSE str[i]]

\* strings.ToLower on a text of ASCII characters.
ToLowerText(str) ==
    [i \in DOMAIN str |->
        IF str[i] \in Range(UpperCase) THEN LowerCase[IndexIn(UpperCase, str[i])]
        ELSE str[i]]

\* The cases of the switch in ScheduleTask.
Intervals ==
    {<<"M", "I", "N", "U", "T", "E">>,
     <<"H", "O", "U", "R", "L", "Y">>,
     <<"D", "A", "I", "L", "Y">>,
     <<"W", "E", "E", "K", "L", "Y">>,
     <<"M", "O", "N", "T", "H", "L", "Y">>,
     <<"O", "N", "C", "E">>,
     <<"O", "N", "S", "T", "A", "R", "T">>,
     <<"O", "N", "L", "O", "G", "O", "N">>,
     <<"O", "N", "I", "D", "L", "E">>,
     <<"E", "V", "E", "N", "T">>}

\* Keywords in lower and mixed case, and texts that are no keyword: nothing,
\* another word, a keyword cut short, a keyword with a blank or a hyphen.
OtherKeywords ==
    {<<"d", "a", "i", "l", "y">>,
     <<"W", "e", "e", "k", "l", "y">>,
     <<"o", "N", "c", "E">>,
     <<"o", "n", "i", "d", "l", "e">>,
     <<>>,
     <<"Y", "E", "A", "R", "L", "Y">>,
     <<"D", "A", "I", "L">>,
     <<"O", "N", "C", "E", " ">>,
     <<"O", "N", "-", "S", "T", "A", "R", "T">>,
     <<"h", "o", "u", "r">>}

\* What ScheduleTask leaves behind and returns when it stops at a step.
ScheduleTaskResult(errText, tmp, script, task, sc, st) ==
    [op |-> "ScheduleTask", err |-> errText # "", errText |-> errText,
     tmpCreated |-> tmp, scriptWritten |-> script, taskCreated |-> task,
     sc |-> sc, st |-> st]

\* ScheduleTask with a fault: the keyword is compared as it was given.
ScheduleTask_CaseSensitive(interval, startTime, o) ==
    IF interval \notin Intervals
    THEN ScheduleTaskResult("invalid interval", FALSE, FALSE, FALSE, <<>>, "")
    ELSE LET start == IF Len(startTime) > 0 THEN startTime[1] ELSE "00:00"
             sc == ToLowerText(ToUpper(interval))
         IN IF o = "mkdir_fail"
            THEN ScheduleTaskResult("scheduling error", FALSE, FALSE, FALSE, <<>>, "")
            ELSE IF o = "write_fail"
            THEN ScheduleTaskResult("scheduling error", TRUE, FALSE, FALSE, <<>>, "")
            ELSE IF o = "run_fail"
            THEN ScheduleTaskResult("scheduling error", TRUE, TRUE, FALSE, sc, start)
            ELSE ScheduleTaskResult("", TRUE, TRUE, TRUE, sc, start)

\* ScheduleTask(name, command, interval, startTime...), where o is the step
\* the system makes fail: os.MkdirTemp, os.WriteFile, the run of schedule.bat,
\* or none.  sc and st are the /sc and /st arguments of the script.
ScheduleTask(interval, startTime, o) ==
    IF ToUpper(interval) \notin Intervals
    THEN ScheduleTaskResult("invalid interval", FALSE, FALSE, FALSE, <<>>, "")
    ELSE LET start == IF Len(startTime) > 0 THEN startTime[1] ELSE "00:00"
             sc == ToLowerText(ToUpper(interval))
         IN IF o = "mkdir_fail"
            THEN ScheduleTaskResult("scheduling error", FALSE, FALSE, FALSE, <<>>, "")
            ELSE IF o = "write_fail"
            THEN ScheduleTaskResult("scheduling error", TRUE, FALSE, FALSE, <<>>, "")
            ELSE IF o = "run_fail"
            THEN ScheduleTaskResult("scheduling error", TRUE, TRUE, FALSE, sc, start)
            ELSE ScheduleTaskResult("", TRUE, TRUE, TRUE, sc, start)

ScheduleTaskArgs ==
    {[op |-> "ScheduleTask", interval |-> i, startTime |-> t, o |-> o] :
        i \in Intervals \cup OtherKeywords,
        t \in {<<>>, <<"09:30">>},
        o \in {"none", "mkdir_fail", "write_fail", "run_fail"}}

ScheduleArgs ==
    {[op |-> "schedule", now |-> [day |-> d, hour |-> h]] : d \in 0..6, h \in 0..23}
    \cup ScheduleTaskArgs

ScheduleInit ==
    /\ mode = "console"
    /\ version = 0
    /\ verbose = FALSE
    /\ arg \in ScheduleArgs
    /\ res = NoResult
    /\ InitRun

\* autoupdate: the start date and start time handed to schtasks /create.
ApplySchedule ==
    /\ arg.op = "schedule"
    /\ res = NoResult
    /\ LET futureDate == AddDate(arg.now, RetentionDays) IN
         res' = [op |-> "schedule", sd |-> FormatDate(futureDate), st |-> StartHour]
    /\ UNCHANGED rvars

\* ScheduleTask applied to a keyword, the optional start time and a failure.
ApplyScheduleTask ==
    /\ arg.op = "ScheduleTask"
    /\ res = NoResult
    /\ res' = ScheduleTask(arg.interval, arg.startTime, arg.o)
    /\ UNCHANGED rvars

ScheduleNext == ApplySchedule \/ ApplyScheduleTask

ScheduleSpec == ScheduleInit /\ [][ScheduleNext]_vars

\* ------------------------------------------- file.Unzip, applied on its own
\* strings.Contains(str, sub).
Contains(str, sub) ==
    \E i \in 1..(Len(str) - Len(sub) + 1) : SubSeq(str, i, i + Len(sub) - 1) = sub

DotDot == <<".", ".">>

\* filepath.Clean on the segments of a path: a .. takes back the segment
\* before it.
RECURSIVE CleanSegments(_, _)
CleanSegments(acc, rest) ==
    IF rest = <<>> THEN acc
    ELSE IF Head(rest) = DotDot /\ acc # <<>> /\ acc[Len(acc)] # DotDot
         THEN CleanSegments(SubSeq(acc, 1, Len(acc) - 1), Tail(rest))
         ELSE CleanSegments(Append(acc, Head(rest)), Tail(rest))

\* filepath.Join(dest, name) for a directory given by its segments and an
\* entry name with / between its segments.
JoinName(dest, name) == CleanSegments(<<>>, dest \o Split(name, "/"))

\* Unzip with a fault: the name of an entry is not tested.
Unzip_NoNameTest(zip, dest, k, o) ==
    IF zip.corrupt
    THEN [op |-> "Unzip", err |-> TRUE, created |-> {}, logged |-> {}, paths |-> {}]
    ELSE LET entries == zip.entries
             skipped(i) == FALSE
             fails == /\ k <= Len(entries)
                      /\ ~skipped(k)
                      /\ (o = "open_fail" \/ ~entries[k].dir)
             last == IF fails THEN k ELSE Len(entries)
             made == {i \in 1..last :
                        ~skipped(i) /\ (fails /\ i = k => o = "copy_fail")}
         IN [op |-> "Unzip", err |-> fails, created |-> made,
             logged |-> {i \in 1..last : skipped(i)},
             paths |-> {JoinName(dest, entries[i].name) : i \in made}]

\* file.Unzip(src, dest), where the file system makes entry k fail with
\* outcome o (k past the last entry: no failure).  An entry whose name contains
\* ".." is logged and passed over; a directory entry is made with MkdirAll,
\* whose result is dropped; a file entry is opened, created and copied.  The
\* result names the entries a file or directory was created for, the entries
\* that were logged, and the paths created.  (A failing MkdirAll of a file's
\* directory ends the process in log.Fatal; it is not among the outcomes.)
Unzip(zip, dest, k, o) ==
    IF zip.corrupt
    THEN [op |-> "Unzip", err |-> TRUE, created |-> {}, logged |-> {}, paths |-> {}]
    ELSE LET entries == zip.entries
             skipped(i) == Contains(entries[i].name, DotDot)
             fails == /\ k <= Len(entries)
                      /\ ~skipped(k)
                      /\ (o = "open_fail" \/ ~entries[k].dir)
             last == IF fails THEN k ELSE Len(entries)
             made == {i \in 1..last :
                        ~skipped(i) /\ (fails /\ i = k => o = "copy_fail")}
         IN [op |-> "Unzip", err |-> fails, created |-> made,
             logged |-> {i \in 1..last : skipped(i)},
             paths |-> {JoinName(dest, entries[i].name) : i \in made}]

\* Entries an archive may hold, in archive order: n.exe, ../e.exe, b/../../e,
\* a..b/f, the directories ../up and b, and b/n.exe.
MasterFileEntries ==
    << [name |-> <<"n", ".", "e", "x", "e">>, dir |-> FALSE],
       [name |-> <<".", ".", "/", "e", ".", "e", "x", "e">>, dir |-> FALSE],
       [name |-> <<"b", "/", ".", ".", "/", ".", ".", "/", "e">>, dir |-> FALSE],
       [name |-> <<"a", ".", ".", "b", "/", "f">>, dir |-> FALSE],
       [name |-> <<".", ".", "/", "u", "p">>, dir |-> TRUE],
       [name |-> <<"b">>, dir |-> TRUE],
       [name |-> <<"b", "/", "n", ".", "e", "x", "e">>, dir |-> FALSE] >>

FileArchives ==
    {[corrupt |-> TRUE, entries |-> <<>>]}
    \cup {[corrupt |-> FALSE, entries |-> Pick(MasterFileEntries, S, 1)] :
            S \in SUBSET (1..Len(MasterFileEntries))}

DestDir == << <<"d", "e", "s", "t">> >>

UnzipArgs ==
    {[op |-> "Unzip", zip |-> z, dest |-> DestDir, k |-> k, o |-> o] :
        z \in FileArchives, k \in 1..(Len(MasterFileEntries) + 1),
        o \in {"open_fail", "copy_fail"}}

UnzipInit ==
    /\ mode = "console"
    /\ version = 0
    /\ verbose = FALSE
    /\ arg \in {a \in UnzipArgs : a.k <= Len(a.zip.entries) + 1}
    /\ res = NoResult
    /\ InitRun

ApplyUnzip ==
    /\ arg.op = "Unzip"
    /\ res = NoResult
    /\ res' = Unzip(arg.zip, arg.dest, arg.k, arg.o)
    /\ UNCHANGED rvars

UnzipNext == ApplyUnzip

UnzipSpec == UnzipInit /\ [][UnzipNext]_vars

\* --------------------------------------- utility.Rename, applied on its own
\* A source is the list of its entries in the order copyDir reaches them, the
\* root first; a source of no entries does not exist.  An entry is a
\* directory or a file; the state of a file is "data" (complete), "partial",
\* "empty" or "absent", the state of a directory "dir" or "absent".
Original(src) == [i \in DOMAIN src |-> IF src[i].dir THEN "dir" ELSE "data"]

Gone(src) == [i \in DOMAIN src |-> "absent"]

\* What one step of the copy does to the entry it is at, where o is the call
\* the system makes fail ("none": no call fails): os.Open or os.ReadDir,
\* os.MkdirAll or os.Create, io.Copy, or Stat and os.Chmod.  alias: old and new
\* name the same file, so os.Create truncates the source.
CopyStep(entry, alias, o) ==
    IF entry.dir
    THEN [err |-> o # "none",
          dst |-> IF o = "none" \/ alias THEN "dir" ELSE "absent",
          src |-> "dir"]
    ELSE IF o \in {"open_fail", "create_fail"}
    THEN [err |-> TRUE, dst |-> IF alias THEN "data" ELSE "absent", src |-> "data"]
    ELSE IF alias
    THEN [err |-> o # "none", dst |-> "empty", src |-> "empty"]
    ELSE [err |-> o # "none",
          dst |-> IF o = "copy_fail" THEN "partial" ELSE "data",
          src |-> "data"]

\* copyFile and copyDir on the entries of src, entry k failing with outcome o
\* (k past the last entry: no failure): the first error ends the copy.
copyDir(src, alias, k, o) ==
    LET fails == k <= Len(src)
        step(i) == CopyStep(src[i], alias, IF fails /\ i = k THEN o ELSE "none")
        last == IF fails THEN k ELSE Len(src)
    IN [err |-> fails,
        dst |-> [i \in DOMAIN src |->
                    IF i <= last THEN step(i).dst
                    ELSE IF alias THEN Original(src)[i] ELSE "absent"],
        src |-> [i \in DOMAIN src |->
                    IF i <= last THEN step(i).src ELSE Original(src)[i]]]

\* os.RemoveAll(old) on what the copy has left of the source: everything is
\* removed, or the call fails before or after it has removed the entries
\* below the root.
RemoveAll(left, rm) ==
    IF rm = "ok" THEN [err |-> FALSE, src |-> [i \in DOMAIN left |-> "absent"]]
    ELSE IF rm = "fail_first" THEN [err |-> TRUE, src |-> left]
    ELSE [err |-> TRUE,
          src |-> [i \in DOMAIN left |-> IF i = 1 THEN left[i] ELSE "absent"]]

\* Rename with a fault: the source is removed before the error of the copy
\* is looked at.
Rename_RemovesBeforeErrorTest(oldDrive, newDrive, alias, src, k, o, rm) ==
    IF oldDrive = newDrive
    THEN IF src = <<>> \/ k = 1
         THEN [op |-> "Rename", err |-> "rename", src |-> Original(src), dst |-> Gone(src)]
         ELSE [op |-> "Rename", err |-> "", src |-> Gone(src), dst |-> Original(src)]
    ELSE IF src = <<>>
    THEN [op |-> "Rename", err |-> "stat", src |-> <<>>, dst |-> <<>>]
    ELSE LET c == copyDir(src, alias, k, o)
             r == RemoveAll(c.src, rm)
         IN IF c.err
            THEN [op |-> "Rename", err |-> "copy", src |-> r.src, dst |-> c.dst]
            ELSE [op |-> "Rename", err |-> IF r.err THEN "remove" ELSE "",
                  src |-> r.src, dst |-> IF alias THEN r.src ELSE c.dst]

\* Rename(old, new), with the volume names of the two paths, the entries of
\* the source and the failures of the system: k = 1 makes os.Rename fail,
\* entry k fails to copy with outcome o, os.RemoveAll ends as rm says.  The
\* result is the call that failed ("": none) and the entries of the source
\* and of the destination after the call.
Rename(oldDrive, newDrive, alias, src, k, o, rm) ==
    IF oldDrive = newDrive
    THEN IF src = <<>> \/ k = 1
         THEN [op |-> "Rename", err |-> "rename", src |-> Original(src), dst |-> Gone(src)]
         ELSE [op |-> "Rename", err |-> "", src |-> Gone(src), dst |-> Original(src)]
    ELSE IF src = <<>>
    THEN [op |-> "Rename", err |-> "stat", src |-> <<>>, dst |-> <<>>]
    ELSE LET c == copyDir(src, alias, k, o) IN
         IF c.err
         THEN [op |-> "Rename", err |-> "copy", src |-> c.src, dst |-> c.dst]
         ELSE LET r == RemoveAll(c.src, rm) IN
              [op |-> "Rename", err |-> IF r.err THEN "remove" ELSE "",
               src |-> r.src, dst |-> IF alias THEN r.src ELSE c.dst]

\* Sources: none, a file, an empty directory, a directory of two files, and a
\* directory with a file, a subdirectory of one file and another file.
RenameSources ==
    {<<>>,
     <<[dir |-> FALSE]>>,
     <<[dir |-> TRUE]>>,
     <<[dir |-> TRUE], [dir |-> FALSE], [dir |-> FALSE]>>,
     <<[dir |-> TRUE], [dir |-> FALSE], [dir |-> TRUE], [dir |-> FALSE],
       [dir |-> FALSE]>>}

\* Volume names of old and new; a relative old has the volume name "" and can
\* name the file that new names with its volume (alias).
RenameArgs ==
    {[op |-> "Rename", oldDrive |-> v[1], newDrive |-> v[2], alias |-> a,
      src |-> x, k |-> k, o |-> o, rm |-> rm] :
        v \in {<<"C:", "C:">>, <<"C:", "D:">>, <<"", "C:">>},
        a \in BOOLEAN, x \in RenameSources, k \in 1..6,
        o \in {"open_fail", "create_fail", "copy_fail", "chmod_fail"},
        rm \in {"ok", "fail_first", "fail_rest"}}

RenameInit ==
    /\ mode = "console"
    /\ version = 0
    /\ verbose = FALSE
    /\ arg \in {a \in RenameArgs :
                  /\ a.k <= Len(a.src) + 1
                  /\ a.alias => (a.oldDrive = "" /\ a.src # <<>>)}
    /\ res = NoResult
    /\ InitRun

ApplyRename ==
    /\ arg.op = "Rename"
    /\ res = NoResult
    /\ res' = Rename(arg.oldDrive, arg.newDrive, arg.alias, arg.src, arg.k,
                     arg.o, arg.rm)
    /\ UNCHANGED rvars

RenameNext == ApplyRename

RenameSpec == RenameInit /\ [][RenameNext]_vars

\* ------------------------------ arch.SearchBytesInFile, applied on its own
MaxFileLen == 4      \* bytes of a file
MaxPatternLen == 3   \* bytes of a pattern
MaxLimit == 5        \* the limit handed to SearchBytesInFile

\* The value of a hexadecimal digit, -1 for any other character.
HexValue(c) ==
    IF c \in numbers THEN IndexIn(DigitChars, c) - 1
    ELSE IF c \in {"a", "b", "c", "d", "e", "f"} THEN 9 + IndexIn(LowerCase, c)
    ELSE IF c \in {"A", "B", "C", "D", "E", "F"} THEN 9 + IndexIn(UpperCase, c)
    ELSE -1

\* hex.DecodeString: two digits a byte; an odd length or another character
\* is an error.
DecodeString(str) ==
    IF Len(str) % 2 # 0 \/ \E i \in DOMAIN str : HexValue(str[i]) = -1
    THEN [err |-> TRUE, bytes |-> <<>>]
    ELSE [err |-> FALSE,
          bytes |-> [i \in 1..(Len(str) \div 2) |->
                        16 * HexValue(str[2 * i - 1]) + HexValue(str[2 * i])]]

\* The loop of SearchBytesInFile from round i on: j is the position in the
\* pattern, bit the one-byte buffer and pos the bytes read so far.  file.Read
\* at the end of the file reads nothing and leaves the buffer as it is; its
\* results are not looked at.  toMatch[j] of an empty pattern is out of range.
RECURSIVE SearchLoop(_, _, _, _, _, _, _)
SearchLoop(content, toMatch, limit, i, j, bit, pos) ==
    IF i >= limit THEN [found |-> FALSE, panic |-> FALSE]
    ELSE IF toMatch = <<>> THEN [found |-> FALSE, panic |-> TRUE]
    ELSE LET atEnd == pos >= Len(content)
             b == IF atEnd THEN bit ELSE content[pos + 1]
             p == IF atEnd THEN pos ELSE pos + 1
             j1 == IF b # toMatch[j + 1] THEN 0 ELSE j
         IN IF b = toMatch[j1 + 1]
            THEN IF j1 + 1 >= Len(toMatch)
                 THEN [found |-> TRUE, panic |-> FALSE]
                 ELSE SearchLoop(content, toMatch, limit, i + 1, j1 + 1, b, p)
            ELSE SearchLoop(content, toMatch, limit, i + 1, j1, b, p)

\* SearchBytesInFile with a fault: the test is on the first byte only.
SearchBytesInFile_FirstByteOnly(opens, content, match, limit) ==
    LET d == DecodeString(match) IN
      IF d.err \/ ~opens
      THEN [op |-> "SearchBytesInFile", found |-> FALSE, panic |-> FALSE]
      ELSE LET r == SearchLoop(content, SubSeq(d.bytes, 1, 1), limit, 0, 0, 0, 0) IN
             [op |-> "SearchBytesInFile", found |-> r.found, panic |-> r.panic]

\* SearchBytesInFile(path, match, limit) for a file that os.Open opens or
\* not and that holds content.
SearchBytesInFile(opens, content, match, limit) ==
    LET d == DecodeString(match) IN
      IF d.err \/ ~opens
      THEN [op |-> "SearchBytesInFile", found |-> FALSE, panic |-> FALSE]
      ELSE LET r == SearchLoop(content, d.bytes, limit, 0, 0, 0, 0) IN
             [op |-> "SearchBytesInFile", found |-> r.found, panic |-> r.panic]

\* The bytes files and patterns are made of, and their two digits as Bit
\* writes them: 00, 4C and 50.
FileBytes == {0, 76, 80}

EncodeByte(b) ==
    IF b = 0 THEN <<"0", "0">> ELSE IF b = 76 THEN <<"4", "C">> ELSE <<"5", "0">>

RECURSIVE EncodeToString(_)
EncodeToString(bytes) ==
    IF bytes = <<>> THEN <<>>
    ELSE EncodeByte(Head(bytes)) \o EncodeToString(Tail(bytes))

\* A pattern given by its bytes, the lower-case text of 4C, and two texts
\* hex.DecodeString rejects.
SearchPatterns ==
    {[match |-> EncodeToString(bytes), bytes |-> bytes] :
        bytes \in SeqsUpTo(FileBytes, MaxPatternLen)}
    \cup {[match |-> <<"4", "c">>, bytes |-> <<76>>],
          [match |-> <<"5">>, bytes |-> <<>>],
          [match |-> <<"5", "g">>, bytes |-> <<>>]}

SearchArgs ==
    {[op |-> "SearchBytesInFile", opens |-> o, content |-> c, match |-> m.match,
      bytes |-> m.bytes, limit |-> l] :
        o \in BOOLEAN, c \in SeqsUpTo(FileBytes, MaxFileLen), m \in SearchPatterns,
        l \in 0..MaxLimit}

SearchInit ==
    /\ mode = "console"
    /\ version = 0
    /\ verbose = FALSE
    /\ arg \in {a \in SearchArgs : ~a.opens => a.content = <<>>}
    /\ res = NoResult
    /\ InitRun

ApplySearch ==
    /\ arg.op = "SearchBytesInFile"
    /\ res = NoResult
    /\ res' = SearchBytesInFile(arg.opens, arg.content, arg.match, arg.limit)
    /\ UNCHANGED rvars

SearchNext == ApplySearch

SearchSpec == SearchInit /\ [][SearchNext]_vars

TypeOK ==
    /\ mode \in {"console", "ui"}
    /\ pc \in STRING
    /\ alive \in BOOLEAN
    /\ exitStatus \in {0, 1, 2}
    /\ staged \in {"absent", "new", "partial"}


\* -------------------------------------------------------------- properties
ErrDelivered == \E i \in DOMAIN delivered : delivered[i].Err # ""
CancelDelivered == \E i \in DOMAIN delivered : delivered[i].Cancel
WatcherStarted == wpc # "notstarted"
Exited(status) == ~alive /\ exitStatus = status

\* Files of the installation that exist before the update.
InstalledNames == {n \in LiveNames : LiveInit[n] # "absent"}

\* C1: a run that ends with a fatal error before the Watcher has been started
\* has not created, overwritten or deleted any file of the installation
\* directory.
C1_FatalLeavesInstallationUntouched ==
    (Exited(1) /\ ~WatcherStarted) => live = LiveInit

\* C2: once the orchestrator has exited, an executable exists at the target
\* path at every point of the Watcher's execution, also where it halts on a
\* failure.
C2_TargetAlwaysExists ==
    (~alive /\ WatcherStarted) => live["nvm.exe"] # "absent"

\* C3: the Watcher deletes the staged executable only directly after the copy
\* reported success and the existence check of the target passed.
C3_DeleteStagedAfterConfirmedCopy ==
    [][(staged # "absent" /\ staged' = "absent") =>
         /\ Len(wtrace) >= 2
         /\ wtrace[Len(wtrace) - 1] = "copy_ok"
         /\ wtrace[Len(wtrace)] = "verify_ok"
         /\ live["nvm.exe"] # "absent"]_vars

C3_Witness ==
    /\ staged = "absent"
    /\ \E i \in DOMAIN wtrace : wtrace[i] = "del_staged"
    /\ live["nvm.exe"] = "new"

\* C4: when the computed digest differs from the sidecar digest, an Err event
\* is emitted and unzip is never executed, whichever consumer is attached and
\* however it is scheduled.
C4_MismatchBlocksExtraction ==
    /\ unzipRan => ToLower(computedChecksum) = ToLower(storedChecksum)
    /\ (pc \in {"announce_extract", "unzip"}
        /\ ToLower(computedChecksum) # ToLower(storedChecksum))
         => (out.Err # "" \/ ErrDelivered)

\* The mismatch has been reported and taken, the consumer is finished, and the
\* orchestrator is blocked announcing the extraction it never starts.
C4_Witness ==
    /\ alive
    /\ ToLower(computedChecksum) # ToLower(storedChecksum)
    /\ delivered # <<>>
    /\ delivered[Len(delivered)].Err = "checksum mismatch"
    /\ pc = "unzip"
    /\ out = TextEvent("extracting update...")
    /\ ~unzipRan

\* C5: while the orchestrator is in the process table the Watcher stays in its
\* wait loop and has done nothing to the target or the staged file.
C5_WatcherWaitsForExit ==
    alive => (wpc \in {"notstarted", "wait"} /\ wtrace = <<>>)

\* The Watcher polls while the orchestrator is blocked in its last send.
C5_Witness ==
    /\ alive
    /\ wpc = "wait"
    /\ pc = "au_exit0"
    /\ out # NoEvent
    /\ cpc = "returned"

\* C6: unzip writes no archive entry outside the scratch extraction directory.
C6_NoWriteOutsideScratch ==
    \A p \in written : IsUnder(AssetsDir, p)

\* C7: no file of the installation is overwritten unless the backup archive
\* has been completely written into .update.
C7_BackupBeforeOverwrite ==
    (\E n \in InstalledNames : live[n] # LiveInit[n]) => updBackup = "complete"

\* C8: the Watcher is never started in a run in which an Err event has been
\* sent on the status stream.
C8_NoWatcherAfterErr ==
    WatcherStarted => ~ErrDelivered

\* C9: the status stream carries at most one terminal event, and it is the
\* last event of the stream.
C9_OneTerminalEventLast ==
    \A i \in DOMAIN delivered : Terminal(delivered[i]) => i = Len(delivered)

\* A terminal event has been taken and a producer is blocked offering another
\* event, which is never taken.
C9_Witness ==
    /\ alive
    /\ delivered # <<>>
    /\ Terminal(delivered[Len(delivered)])
    /\ out # NoEvent
    /\ cout # NoEvent

\* Conditions section 7 of the design lists as fatal.
FatalSteps == {"check", "download", "verify", "extract", "backup", "staging"}

\* C10: no run in which a fatal error occurred ends with exit status 0
\* (stated for runs the user neither canceled nor interrupted).
C10_FatalNeverExitsZero ==
    (Exited(0) /\ ~CancelDelivered /\ ~interrupted) => failed \cap FatalSteps = {}

\* C11: an interrupt before the Watcher is started ends the orchestrator with
\* the installation as it was and with no scratch file, no backup archive in
\* the backup directory and none in .update left behind; only .update/nvm.exe
\* may remain.
C11_InterruptLeavesNothing ==
    (interrupted /\ ~WatcherStarted) =>
        /\ live = LiveInit
        /\ zipFile = NoFile
        /\ written = {}
        /\ scratchAssets = {}
        /\ bkpZip = "absent"
        /\ updBackup = "absent"

\* C12: a Watcher that has been started always leaves its wait loop and goes
\* on with the swap sequence, whatever interrupt or cancel reaches the
\* orchestrator in between; nothing takes it back or stops it.
C12_StartedWatcherProceeds ==
    (wpc = "wait") ~> (wpc = "check_source")

\* The interrupt came after the Watcher was started and the swap was made.
C12_Witness ==
    /\ interrupted
    /\ wpc = "done"
    /\ live["nvm.exe"] = "new"

\* C13: the Watcher ends with a non-zero status whenever one of its steps
\* failed, and with status 0 only when every step succeeded, the registration
\* of the cleanup task included.
C13_WatcherZeroOnlyOnSuccess ==
    /\ wpc = "halted" => wExit # 0
    /\ wpc = "done" =>
          /\ wExit = 0
          /\ live["nvm.exe"] # "absent"
          /\ staged = "absent"
          /\ cleanup

\* C14: the Watcher is started only when the new executable has been copied
\* into .update; a failed copy ends the run before the start.
C14_StagingFailureIsFatal ==
    (wpc = "wait") => staged = "new"

\* Every entry of the archive leads out of the extraction directory.
TraversalOnly(entries) ==
    entries # <<>> /\ \A i \in DOMAIN entries : Head(entries[i]) = ".."

\* C15: after the extraction of an archive that is corrupt or holds only
\* path-traversal entries an Err event is emitted and no backup, no staging
\* and no Watcher start follows.
C15_BadArchiveIsFatal ==
    (unzipRan /\ (zipFile.corrupt \/ TraversalOnly(zipFile.entries))) =>
        /\ alive => (out.Err # "" \/ ErrDelivered)
        /\ bkpZip = "absent"
        /\ ~updateDir
        /\ staged = "absent"
        /\ ~WatcherStarted

C17_CleanupAfterSevenDays ==
    res.op = "schedule" =>
        Hours([day |-> res.sd, hour |-> res.st]) - Hours(arg.now) >= RetentionDays * 24

\* C19: Parse succeeds on every canonical version string and String gives
\* the string back.
C19_ParseStringRoundTrip ==
    (res.op = "Parse" /\ arg.from = "canonical") => (~res.err /\ res.str = arg.s)

\* C20: Compare is antisymmetric, reflexive and transitive, and GT, GTE, LT
\* and LTE agree with its sign.
C20_CompareTotalOrder ==
    res.op = "Compare" =>
        /\ res.ab = -res.ba
        /\ res.aa = 0
        /\ (res.ab <= 0 /\ res.bc <= 0) => res.ac <= 0
        /\ res.gt = (res.ab > 0)
        /\ res.gte = (res.ab >= 0)
        /\ res.lt = (res.ab < 0)
        /\ res.lte = (res.ab <= 0)

\* 1.0.0-alpha < 1.0.0-alpha.1 < 1.0.0-alpha.beta have been compared.
C20_Witness ==
    /\ res.op = "Compare"
    /\ arg.a = Canonical(1, 0, 0, <<alpha>>, <<>>)
    /\ arg.b = Canonical(1, 0, 0, <<alpha, <<"1">>>>, <<>>)
    /\ arg.c = Canonical(1, 0, 0, <<alpha, beta>>, <<>>)
    /\ res.ab = -1
    /\ res.bc = -1
    /\ res.ac = -1

\* The running version and the version of the descriptor, parsed.
CurrentVersion == ParsedVersions[version].v
UpdateVersion == ParsedVersions[update.Version].v

UpToDate == DoneEvent("nvm is up to date")

\* C18: the run comes to the download only when the descriptor's version is
\* above the running one under Compare; otherwise it emits the one terminal
\* event Done "nvm is up to date", downloads nothing and changes no file.
C18_DownloadOnlyWhenNewer ==
    /\ (pc \in {"vwarnings", "mktmp", "download"} \/ zipFile # NoFile) =>
          /\ ParseOK(version) /\ ParseOK(update.Version)
          /\ Compare(CurrentVersion, UpdateVersion) = -1
    /\ (pc \in {"return_nil", "returned"} /\ ~retErr) =>
          /\ Compare(CurrentVersion, UpdateVersion) >= 0
          /\ \/ out = UpToDate
             \/ delivered # <<>> /\ delivered[Len(delivered)] = UpToDate
          /\ \A i \in DOMAIN delivered :
                Terminal(delivered[i]) => delivered[i] \in {UpToDate, CancelEvent}
          /\ pc = "returned" => delivered[Len(delivered)] = UpToDate
          /\ zipFile = NoFile
          /\ written = {}
          /\ scratchAssets = {}
          /\ bkpZip = "absent" /\ ~updateDir /\ updBackup = "absent"
          /\ staged = "absent" /\ updExe = "absent"
          /\ live = LiveInit
          /\ ~WatcherStarted

\* The descriptor names a prerelease of the running version and the run has
\* returned after the "up to date" event.
C18_Witness ==
    /\ alive
    /\ pc = "returned"
    /\ ~retErr
    /\ version = 2
    /\ update.Version = 1
    /\ delivered[Len(delivered)] = UpToDate

\* The sign of the difference of two numbers.
Sign(x, y) == IF x > y THEN 1 ELSE IF x < y THEN -1 ELSE 0

\* a comes before b in lexicographic (ASCII) order.
LexLess(a, b) ==
    \E k \in 1..Len(b) :
        /\ \A j \in 1..(k - 1) : j <= Len(a) /\ a[j] = b[j]
        /\ k > Len(a) \/ Byte(a[k]) < Byte(b[k])

\* The order of two prerelease identifiers: numeric by magnitude,
\* alphanumeric lexicographically, numeric below alphanumeric.
IdentOrder(x, y) ==
    IF x.IsNum /\ y.IsNum THEN Sign(x.VersionNum, y.VersionNum)
    ELSE IF x.IsNum THEN -1
    ELSE IF y.IsNum THEN 1
    ELSE IF x.VersionStr = y.VersionStr THEN 0
    ELSE IF LexLess(x.VersionStr, y.VersionStr) THEN -1 ELSE 1

\* The precedence of two versions by the rules of the design; the build
\* metadata is not looked at.
Precedence(v, o) ==
    IF v.Major # o.Major THEN Sign(v.Major, o.Major)
    ELSE IF v.Minor # o.Minor THEN Sign(v.Minor, o.Minor)
    ELSE IF v.Patch # o.Patch THEN Sign(v.Patch, o.Patch)
    ELSE IF v.Pre = <<>> /\ o.Pre = <<>> THEN 0
    ELSE IF v.Pre = <<>> THEN 1
    ELSE IF o.Pre = <<>> THEN -1
    ELSE LET shared == 1..(IF Len(v.Pre) < Len(o.Pre) THEN Len(v.Pre) ELSE Len(o.Pre))
             differ == {i \in shared : IdentOrder(v.Pre[i], o.Pre[i]) # 0}
         IN IF differ = {} THEN Sign(Len(v.Pre), Len(o.Pre))
            ELSE LET k == CHOOSE i \in differ : \A j \in differ : i <= j
                 IN IdentOrder(v.Pre[k], o.Pre[k])

\* C21: Compare returns what the precedence rules give: major, minor and
\* patch by number, a release above its prereleases, prerelease identifiers
\* pairwise (numeric by magnitude, alphanumeric lexicographically, numeric
\* below alphanumeric), the shorter prerelease list first, build metadata
\* without any effect.
C21_CompareFollowsPrecedence ==
    res.op = "Compare" => res.ab = Precedence(arg.va, arg.vb)

\* 1.0.0-2 has been found below 1.0.0-10.
C21_Witness ==
    /\ res.op = "Compare"
    /\ arg.a = Canonical(1, 0, 0, <<<<"2">>>>, <<>>)
    /\ arg.b = Canonical(1, 0, 0, <<<<"1", "0">>>>, <<>>)
    /\ arg.c = Canonical(1, 0, 0, <<alpha>>, <<<<"b">>>>)
    /\ res.ab = -1

\* A text that is no number without leading zero.
BadNumber(f) == f = <<>> \/ ~containsOnly(f, numbers) \/ hasLeadingZeroes(f)

\* An identifier that is empty or has a character outside [0-9A-Za-z-].
BadIdent(i) == i = <<>> \/ ~containsOnly(i, alphanum)

\* C22: Parse returns an error for the empty string, for fewer than three
\* fields, for an empty, non-numeric or zero-led MAJOR, MINOR or PATCH, for an
\* empty identifier, for an identifier with a character outside [0-9A-Za-z-]
\* and for a numeric prerelease identifier with a leading zero.
C22_ParseRejectsMalformed ==
    /\ (res.op = "Parse" /\ arg.from = "short") => res.err
    /\ (/\ res.op = "Parse"
        /\ arg.from = "assembled"
        /\ \/ \E i \in 1..3 : BadNumber(arg.nums[i])
           \/ \E i \in DOMAIN arg.pre :
                 BadIdent(arg.pre[i])
                 \/ (containsOnly(arg.pre[i], numbers) /\ hasLeadingZeroes(arg.pre[i]))
           \/ \E i \in DOMAIN arg.build : BadIdent(arg.build[i]))
         => res.err

\* The text of a version string after its second dot: PATCH and what follows.
Remainder(str) == SplitN(str, ".", 3)[3]

\* The prerelease and the build metadata of a parsed version, as text.
PreText(v) == JoinStrings([i \in DOMAIN v.Pre |-> PRVersionString(v.Pre[i])], <<".">>)
BuildText(v) == JoinStrings(v.Build, <<".">>)

\* C23: with a + before the first - in the remainder after PATCH, the version
\* has no prerelease and all that follows the + is build metadata; with the
\* first - before the +, the text between them is the prerelease and the text
\* after the + the build metadata.
C23_BuildSeparatorFirst ==
    (res.op = "Parse" /\ arg.from = "canonical") =>
        LET rest == Remainder(arg.s)
            plus == Index(rest, "+")
            hyphen == Index(rest, "-")
        IN /\ (plus # 0 /\ hyphen # 0 /\ plus < hyphen) =>
                /\ ~res.err
                /\ res.v.Pre = <<>>
                /\ BuildText(res.v) = SubSeq(rest, plus + 1, Len(rest))
           /\ (plus # 0 /\ hyphen # 0 /\ hyphen < plus) =>
                /\ ~res.err
                /\ PreText(res.v) = SubSeq(rest, hyphen + 1, plus - 1)
                /\ BuildText(res.v) = SubSeq(rest, plus + 1, Len(rest))

\* Nothing of the installation, the scratch files or the Watcher has changed.
SystemUntouched ==
    /\ live = LiveInit
    /\ zipFile = NoFile /\ written = {} /\ scratchAssets = {}
    /\ bkpZip = "absent" /\ ~updateDir /\ updBackup = "absent"
    /\ staged = "absent" /\ updExe = "absent"
    /\ wpc = "notstarted" /\ wtrace = <<>> /\ ~cleanup
    /\ delivered = <<>> /\ out = NoEvent

\* C24 as stated: Available returns the descriptor's version string with a
\* flag that is true exactly when the descriptor's version is above the
\* running one under Compare, and changes nothing; a version New rejects gives
\* an error and the flag false.
C24_AvailableReturnsTarget ==
    res.op = "Available" =>
        LET cur == New(arg.since)
            upd == New(arg.u.Version)
        IN /\ res.u = arg.u
           /\ SystemUntouched
           /\ IF cur.err \/ upd.err
              THEN res.err /\ ~res.flag
              ELSE /\ ~res.err
                   /\ res.flag = (Compare(upd.v, cur.v) = 1)
                   /\ res.version = arg.u.Version

\* C24, amended: the string is the descriptor's version when the flag is true
\* and empty otherwise.
C24_AvailableFlagAndTarget ==
    res.op = "Available" =>
        LET cur == New(arg.since)
            upd == New(arg.u.Version)
        IN /\ res.u = arg.u
           /\ SystemUntouched
           /\ IF cur.err \/ upd.err
              THEN res.err /\ ~res.flag /\ res.version = <<>>
              ELSE /\ ~res.err
                   /\ res.flag = (Compare(upd.v, cur.v) = 1)
                   /\ res.version = IF res.flag THEN arg.u.Version ELSE <<>>

\* Available has been asked for 1.0.0 while 1.0.0-alpha runs, and has
\* answered 1.0.0 and true.
C24_Witness ==
    /\ res.op = "Available"
    /\ arg.since = Canonical(1, 0, 0, <<alpha>>, <<>>)
    /\ arg.u.Version = Canonical(1, 0, 0, <<>>, <<>>)
    /\ res.flag
    /\ res.version = Canonical(1, 0, 0, <<>>, <<>>)

FeedFailures == {"feed_fetch", "feed_parse"}

\* C25: when the advisory feed cannot be fetched or parsed, and nothing else
\* has failed, the descriptor has empty warning lists, no error is returned
\* or reported and the run goes on.
C25_FeedFailureIsRecoverable ==
    (alive /\ failed # {} /\ failed \subseteq FeedFailures) =>
        /\ update.Warnings = 0 /\ update.VersionWarnings = 0
        /\ ~retErr
        /\ out.Err = "" /\ ~ErrDelivered

\* The name has a segment equal to "..".
HasDotDotSegment(name) ==
    \E j \in DOMAIN Split(name, "/") : Split(name, "/")[j] = DotDot

\* C26: file.Unzip creates no file or directory for an entry with a segment
\* "..": the entry is logged and passed over, the entries after it are still
\* extracted, and an error Unzip returns is never the error of such an entry.
C26_TraversalEntrySkipped ==
    (res.op = "Unzip" /\ ~arg.zip.corrupt) =>
        LET entries == arg.zip.entries
            traversal == {i \in DOMAIN entries : HasDotDotSegment(entries[i].name)}
            plain == {i \in DOMAIN entries : ~Contains(entries[i].name, DotDot)}
        IN /\ traversal \cap res.created = {}
           /\ res.err => (arg.k \in DOMAIN entries /\ arg.k \notin traversal)
           /\ ~res.err => (traversal \subseteq res.logged /\ plain \subseteq res.created)
           /\ \A i \in traversal : i < arg.k => i \in res.logged

\* ../e.exe was logged and passed over, and b/n.exe after it was extracted.
C26_Witness ==
    /\ res.op = "Unzip"
    /\ ~res.err
    /\ Len(arg.zip.entries) = 2
    /\ arg.zip.entries[1].name = MasterFileEntries[2].name
    /\ arg.zip.entries[2].name = MasterFileEntries[7].name
    /\ res.logged = {1}
    /\ res.created = {2}

\* The event the consumer is handling makes it call a method of the dialog.
UsesDialog(e) == ~e.Cancel /\ (e.Err # "" \/ e.Done \/ e.Text # "")

\* The event the consumer is handling makes it read the descriptor u.
UsesDescriptor(e) == e.Cancel \/ (e.Err = "" /\ e.Done)

\* C27: the progress-UI consumer uses the dialog only once the update task
\* has created it, and reads the descriptor only once the update task has
\* assigned it.
C27_ConsumerReadsAfterWrite ==
    (alive /\ mode = "ui" /\ cpc = "handle") =>
        /\ UsesDialog(s) => dlg # "none"
        /\ UsesDescriptor(s) => pc # "start"

\* C28: once the Watcher has been started the orchestrator process ends,
\* whether or not its last event is taken, and the Watcher leaves its wait
\* loop for the swap sequence.
C28_OrchestratorExitsWatcherSwaps ==
    (wpc = "wait") ~> (~alive /\ wpc \notin {"notstarted", "wait"})

\* The last event was taken, the orchestrator has exited by itself and the
\* Watcher has come to the copy.
C28_Witness ==
    /\ ~alive
    /\ ~interrupted
    /\ exitStatus = 0
    /\ delivered # <<>>
    /\ delivered[Len(delivered)] = DoneEvent("restarting app...")
    /\ wpc = "copy"

\* The Watcher has performed op before the i-th of its operations.
DoneBefore(op, i) == \E j \in 1..(i - 1) : wtrace[j] = op

\* The Watcher has performed op.
Performed(op) == \E i \in DOMAIN wtrace : wtrace[i] = op

\* The three closing operations of the Watcher.
ClosingOps == {"schedule", "del_script", "relaunch"}

\* The order of the closing operations, with schtasks counted as run whether
\* or not it has registered the task.
ClosingOpsInOrder ==
    /\ \A i \in DOMAIN wtrace :
         /\ wtrace[i] \in ClosingOps =>
              DoneBefore("verify_ok", i) /\ DoneBefore("del_staged", i)
         /\ wtrace[i] = "del_script" => DoneBefore("schedule", i)
         /\ wtrace[i] = "relaunch" => DoneBefore("del_script", i)
    /\ wpc = "halted" => \A op \in ClosingOps : ~Performed(op)

\* C29: the Watcher registers the cleanup task, then deletes its script, then
\* fires the relaunch trigger, each after the copy and the removal of the
\* staged file have been verified; the script is deleted and the trigger
\* fired only with the cleanup task registered, and a halted Watcher has done
\* none of the three.
C29_RegisterDeleteRelaunchInOrder ==
    /\ ClosingOpsInOrder
    /\ (Performed("del_script") \/ Performed("relaunch")) => cleanup

\* The progress events of a run in the order of the steps that send them;
\* the position of an event in this list is its rank.
ProgressOrder ==
    <<TextEvent("Validating version..."),
      WarnEvent("warning"),
      WarnEvent("version warning"),
      TextEvent("downloading..."),
      TextEvent("verifying checksum..."),
      TextEvent("extracting update..."),
      TextEvent("downloading additional assets..."),
      TextEvent("applying update..."),
      DoneEvent("restarting app...")>>

IsProgress(e) == \E r \in DOMAIN ProgressOrder : ProgressOrder[r] = e

Rank(e) == CHOOSE r \in DOMAIN ProgressOrder : ProgressOrder[r] = e

\* An event that is not in the list ends the stream, so the order of the
\* whole stream follows from the order of each event and the one before it.
InOrder(before, e) ==
    /\ IsProgress(before)
    /\ IsProgress(e) =>
         /\ Rank(before) <= Rank(e)
         /\ e.Warn = "" => Rank(before) < Rank(e)

\* The event that announces the step before the one e announces; the events
\* not listed here follow no particular step.
StepBefore(e) ==
    CASE e = TextEvent("verifying checksum...") -> {TextEvent("downloading...")}
      [] e = TextEvent("extracting update...") -> {TextEvent("verifying checksum...")}
      [] e = TextEvent("downloading additional assets...") ->
             {TextEvent("extracting update...")}
      [] e = TextEvent("applying update...") -> {TextEvent("extracting update...")}
      [] e = DoneEvent("restarting app...") -> {TextEvent("applying update...")}
      [] OTHER -> {}

\* C30: the events the consumer has taken are in the order of the steps:
\* warnings, "downloading...", "verifying checksum...", "extracting
\* update...", "downloading N additional assets..." if any, "applying
\* update...", "restarting app..." with Done; no step's event is taken twice
\* or without the event of the step before; the Done event is the last one
\* and is taken only with the Watcher started.
C30_EventsInStepOrder ==
    /\ \A j \in 2..Len(delivered) : InOrder(delivered[j - 1], delivered[j])
    /\ \A j \in DOMAIN delivered :
         \A e \in StepBefore(delivered[j]) :
            \E i \in 1..(j - 1) : delivered[i] = e
    /\ \A j \in DOMAIN delivered :
         delivered[j] = DoneEvent("restarting app...") =>
            /\ j = Len(delivered)
            /\ wpc # "notstarted"

\* A whole update with a global warning and an additional asset: every other
\* event of the list has been taken and the Watcher is waiting for the
\* orchestrator to end.
C30_Witness ==
    /\ mode = "ui"
    /\ \A r \in DOMAIN ProgressOrder :
         \/ ProgressOrder[r] = WarnEvent("version warning")
         \/ \E i \in DOMAIN delivered : delivered[i] = ProgressOrder[r]
    /\ wpc = "wait"

\* C31: a Version that Parse returns without error passes Validate; each of
\* its prerelease identifiers is numeric or a non-empty text over
\* [0-9A-Za-z-], and each of its build identifiers is a non-empty text over
\* [0-9A-Za-z-].
C31_ParsedVersionIsValid ==
    (res.op = "Parse" /\ ~res.err) =>
        /\ ~Validate(res.v)
        /\ \A i \in DOMAIN res.v.Pre :
             \/ res.v.Pre[i].IsNum
             \/ res.v.Pre[i].VersionStr # <<>> /\ containsOnly(res.v.Pre[i].VersionStr, alphanum)
        /\ \A i \in DOMAIN res.v.Build :
             res.v.Build[i] # <<>> /\ containsOnly(res.v.Build[i], alphanum)

\* A string put together from texts was parsed into a version with a
\* non-numeric prerelease identifier and a build identifier.
C31_Witness ==
    /\ res.op = "Parse"
    /\ arg.from = "assembled"
    /\ ~res.err
    /\ \E i \in DOMAIN res.v.Pre : ~res.v.Pre[i].IsNum
    /\ res.v.Build # <<>>

\* Two texts are the same but for the case of their letters.
SameIgnoringCase(a, b) ==
    /\ Len(a) = Len(b)
    /\ \A i \in DOMAIN a :
         \/ a[i] = b[i]
         \/ \E k \in DOMAIN LowerCase :
              {a[i], b[i]} = {LowerCase[k], UpperCase[k]}

\* ScheduleTask has refused the keyword.
InvalidInterval == res.errText = "invalid interval"

\* C32: ScheduleTask accepts a keyword exactly when it is, ignoring case, one
\* of the ten recurrence keywords; a refused keyword gives the "invalid
\* interval" error with no temporary directory, script or task created; with
\* no start time given the script says 00:00.
C32_ScheduleTaskKeywords ==
    res.op = "ScheduleTask" =>
        /\ ~InvalidInterval <=>
              \E kw \in Intervals : SameIgnoringCase(arg.interval, kw)
        /\ InvalidInterval =>
              res.err /\ ~res.tmpCreated /\ ~res.scriptWritten /\ ~res.taskCreated
        /\ (res.scriptWritten /\ arg.startTime = <<>>) => res.st = "00:00"

\* A keyword in mixed case and no start time: the task is registered for 00:00.
C32_Witness ==
    /\ res.op = "ScheduleTask"
    /\ arg.interval \notin Intervals
    /\ arg.startTime = <<>>
    /\ res.taskCreated
    /\ res.st = "00:00"

\* Two digest texts are the same but for the case of their letters.
SameDigest(a, b) == a = b \/ {a, b} = {"d1", "D1"}

\* The three steps of the verification have run.
VerificationDone == pc = "announce_extract"

\* C33: the verification reports no failure exactly when the sidecar file has
\* a first token and that token is the computed digest of the archive but for
\* letter case; an empty sidecar and any other token are reported as failures.
C33_ChecksumPassesOnEqualToken ==
    VerificationDone =>
        ("verify" \notin failed <=>
            /\ checksumFile # <<>>
            /\ SameDigest(Head(checksumFile), computedChecksum))

\* The sidecar holds the digest in upper case and the verification has passed.
C33_Witness ==
    /\ VerificationDone
    /\ checksumFile = <<"D1">>
    /\ computedChecksum = "d1"
    /\ "verify" \notin failed

\* C34: in progress-UI mode the process exits whatever the outcome of the
\* update flow, a terminal event or an error that run returns; the consumer
\* does not wait forever for an event nobody sends.
C34_UIRunTerminates ==
    (mode = "ui") ~> ~alive

\* C35: a file stored in the scratch directory under the name of an
\* additional asset does not hold the content of the primary archive, and it
\* stands in the place of no entry extracted from the archive.
C35_AssetFromOwnURL ==
    \A a \in scratchAssets :
        /\ a[2] # "archive"
        /\ ~\E q \in written : IsUnder(AssetsDir, q) /\ q[Len(q)] = a[1]

\* C36: when file.Unzip returns no error, the entries it has passed over are
\* exactly the entries with a segment "..": every other entry, a..b/f among
\* them, has been extracted.
C36_OnlyDotDotSegmentsSkipped ==
    (res.op = "Unzip" /\ ~arg.zip.corrupt /\ ~res.err) =>
        LET entries == arg.zip.entries IN
          \A i \in DOMAIN entries :
             /\ i \in res.created <=> ~HasDotDotSegment(entries[i].name)
             /\ i \in res.logged <=> HasDotDotSegment(entries[i].name)

\* Old and new lie on two volumes.
AcrossVolumes == arg.oldDrive # arg.newDrive /\ ~arg.alias

\* C37: across volumes, Rename has removed something of the source only when
\* every entry of the source has been copied to the destination and no copy
\* failed; when it returns a copy error, every entry of the source is as it
\* was.
C37_SourceRemovedAfterFullCopy ==
    (res.op = "Rename" /\ AcrossVolumes) =>
        /\ res.src # Original(arg.src) =>
              /\ res.dst = Original(arg.src)
              /\ res.err \in {"", "remove"}
        /\ res.err = "copy" => res.src = Original(arg.src)

\* The copy of a directory tree to another volume failed at the file of the
\* subdirectory: three entries are at the destination, the source is whole.
C37_Witness ==
    /\ res.op = "Rename"
    /\ AcrossVolumes
    /\ Len(arg.src) = 5
    /\ arg.k = 4
    /\ res.err = "copy"
    /\ res.dst[3] = "dir"
    /\ res.dst[4] = "partial"
    /\ res.src = Original(arg.src)

\* The first n bytes of a file, all of them when it has fewer.
FirstBytes(content, n) ==
    SubSeq(content, 1, IF n < Len(content) THEN n ELSE Len(content))

\* The bytes of pattern are next to one another somewhere in bytes.
Occurs(pattern, bytes) ==
    \E i \in 1..(Len(bytes) - Len(pattern) + 1) :
        SubSeq(bytes, i, i + Len(pattern) - 1) = pattern

\* C38: for a file that opens and a text that encodes a pattern of at least
\* one byte, SearchBytesInFile returns true exactly when the pattern occurs
\* within the first limit bytes of the file.
C38_FoundIffOccurs ==
    (res.op = "SearchBytesInFile" /\ arg.opens /\ arg.bytes # <<>>) =>
        (res.found <=> Occurs(arg.bytes, FirstBytes(arg.content, arg.limit)))

====
